---- MODULE Spec2Model ----
(***************************************************************************)
(* Model of the matching-and-ranking core of immigration-pathfinder:       *)
(*   agents/match_agent.py          MatchAgent                             *)
(*   agents/country_finder_agent.py CountryFinderAgent                     *)
(*                                                                         *)
(* Encoding of Python values                                               *)
(*   numbers   : integers.  IELTS bands are in tenths (6.5 -> 65); raw     *)
(*               scores and factor scores are in hundredths (0.8 -> 80);   *)
(*               final scores are in hundredths of a point (80.00 -> 8000).*)
(*   ABSENT    : the key is not in the dict                                *)
(*   NONE      : the key is present with the value None                    *)
(*   BAD       : a truthy non-numeric value (e.g. the string "abc"); every *)
(*               ordering comparison of it with a number raises TypeError  *)
(*   ""        : for text fields, an absent, None or empty value (the code *)
(*               treats the three alike: `x or ""`, `if not degree`)       *)
(*   BADSTR    : a truthy non-string value in a text field (e.g. 5)        *)
(***************************************************************************)
EXTENDS Integers, Sequences, FiniteSets, TLC

VARIABLES
    profile,    \* the user profile dict handed to the agents
    rules,      \* MatchAgent.rules: the rule catalog
    logger,     \* the injected logger: "none", "ok" or "raising"
    pc,         \* position of the caller in the pipeline
    matchOut,   \* outcome of MatchAgent.evaluate_all; its results are the
                \* match_results handed to CountryFinderAgent
    rankOut,    \* outcome of CountryFinderAgent(...).rank_countries()
    top,        \* outcome of get_top_recommendation()
    rule,       \* the rule handed to _score_single_rule (single-rule runs)
    single,     \* outcome of _score_single_rule
    final,      \* _calculate_final_score of that outcome
    prev,       \* funds and final score of the run before the last re-run
    scored,     \* the scored_countries list handed to _classify_countries
    classification, \* what _classify_countries returned for it
    weights,    \* CountryFinderAgent.WEIGHTS, a class attribute
    request,    \* the arguments of a get_savings_plan call
    plan,       \* what get_savings_plan returned for them
    sessions,   \* SessionService._sessions
    history     \* the last SessionService call and the ids updated so far

vars == <<profile, rules, logger, pc, matchOut, rankOut, top,
          rule, single, final, prev, scored, classification, weights,
          request, plan, sessions, history>>

\* the values of the savings and session variables while neither
\* FundsGapCalculator nor SessionService is in use
NoRequest == [available |-> 0, required |-> 0, monthly_savings |-> 0, currency |-> ""]
NoPlan ==
    [gap |-> 0, monthly_savings |-> 0, months_needed |-> 0, feasible |-> FALSE,
     feasibility_level |-> "", recommendation |-> <<>>, currency |-> ""]
PyNone == [none |-> TRUE]
NoSessions == [id \in {} |-> PyNone]
NoData == [kind |-> "none", value |-> PyNone]
NoHistory ==
    [op |-> "", sid |-> "", data |-> NoData, raised |-> "", updated |-> {}]

----------------------------------------------------------------------------
(* Python value encoding *)

ABSENT == -2
NONE == -1
BAD == -3
BADSTR == "<non-string>"

\* dict.get(key): None when the key is absent
Get(v) == IF v = ABSENT THEN NONE ELSE v

\* truth value of a (possibly absent) number-like value
Truthy(v) == v \notin {ABSENT, NONE, 0}

\* Python `a or b` on two dict.get lookups
PyOr(a, b) == IF Truthy(a) THEN a ELSE Get(b)

\* `x < y` raises TypeError when one side is not a number
CmpRaises(x, y) == x = BAD \/ y = BAD

Max(a, b) == IF a >= b THEN a ELSE b
Min(a, b) == IF a <= b THEN a ELSE b

----------------------------------------------------------------------------
(* agents/match_agent.py : module constants *)

DEGREE_ORDER ==
    [d \in {"high school", "high_school", "diploma", "bachelor", "master", "phd"} |->
        CASE d = "high school" -> 0
          [] d = "high_school" -> 0
          [] d = "diploma"     -> 1
          [] d = "bachelor"    -> 2
          [] d = "master"      -> 3
          [] d = "phd"         -> 4]

GoalsWithAliases == {"work", "study", "family"}

GOAL_ALIASES ==
    [g \in GoalsWithAliases |->
        CASE g = "work"   -> {"work", "job", "worker", "skilled_worker", "work_visa"}
          [] g = "study"  -> {"study", "student", "study_visa", "student_visa", "education"}
          [] g = "family" -> {"family", "spouse", "marriage", "sponsorship", "family_visa"}]

SCORE_OK == 75
SCORE_BORDERLINE == 40
MAX_PENALTIES == 5

LARGE_FUNDS_GAP == 5000

----------------------------------------------------------------------------
(* str.strip().lower() and _normalize_degree on the texts the model uses *)

\* s.strip().lower()
StripLower(s) ==
    CASE s = "Study"   -> "study"
      [] s = "Work"    -> "work"
      [] s = "PR"      -> "pr"
      [] s = " work "  -> "work"
      [] s = "Student" -> "student"
      [] s = "Job"     -> "job"
      [] OTHER         -> s

\* degree.lower().strip().replace(" ", "_"), "" for a falsy degree
NormalizeDegree(degree) ==
    CASE degree = ""            -> ""
      [] degree = "Bachelor"    -> "bachelor"
      [] degree = "Master"      -> "master"
      [] degree = "High School" -> "high_school"
      [] degree = " PhD "       -> "phd"
      [] OTHER                  -> degree

DegreeRank(d) == IF d \in DOMAIN DEGREE_ORDER THEN DEGREE_ORDER[d] ELSE -1

----------------------------------------------------------------------------
(* MatchAgent._score_single_rule, check by check.  Each check yields        *)
(* [raised, missing, risks, penalties]: whether it raised, what it         *)
(* appended to the two lists and what it added to the penalty counter.     *)

NoFinding == [raised |-> FALSE, missing |-> <<>>, risks |-> <<>>, penalties |-> 0]
Raised == [raised |-> TRUE, missing |-> <<>>, risks |-> <<>>, penalties |-> 0]
\* Miss with the `penalties += 1` left out
Miss_NoPenalty(msg) ==
    [raised |-> FALSE, missing |-> <<msg>>, risks |-> <<>>, penalties |-> 0]

\* missing.append(msg); penalties += 1
Miss(msg) == [raised |-> FALSE, missing |-> <<msg>>, risks |-> <<>>, penalties |-> 1]

AgeCheck(p, r) ==
    LET age == Get(p.age)
        min_age == Get(r.minimum_age)
        max_age == PyOr(r.maximum_age, r.age_max)
        lowTest == Truthy(min_age)
        highTest == Truthy(max_age)
    IN  IF age = NONE THEN NoFinding
        ELSE IF lowTest /\ CmpRaises(age, min_age) THEN Raised
        ELSE IF highTest /\ CmpRaises(age, max_age) THEN Raised
        ELSE [raised |-> FALSE,
              missing |-> (IF lowTest /\ age < min_age
                              THEN <<"Age below minimum">> ELSE <<>>)
                          \o (IF highTest /\ age > max_age
                              THEN <<"Age above maximum">> ELSE <<>>),
              risks |-> <<>>,
              penalties |-> (IF lowTest /\ age < min_age THEN 1 ELSE 0)
                            + (IF highTest /\ age > max_age THEN 1 ELSE 0)]

DegreeCheck(p, r) ==
    LET profile_degree == NormalizeDegree(p.education_level)
        required_degree == NormalizeDegree(
            IF r.min_degree # "" THEN r.min_degree ELSE r.minimum_degree)
        profile_rank == DegreeRank(profile_degree)
        required_rank == DegreeRank(required_degree)
    IN  IF profile_degree = "" \/ required_degree = "" THEN NoFinding
        ELSE IF profile_rank < 0 THEN Miss("Unknown degree level")
        ELSE IF profile_rank < required_rank THEN Miss("Degree below required")
        ELSE NoFinding

\* IeltsCheck with the `if profile_ielts is None` branch left out
IeltsCheck_MissingUnpenalized(p, r) ==
    LET profile_ielts == Get(p.ielts)
        required_ielts == PyOr(r.min_ielts, r.minimum_ielts)
    IN  IF required_ielts = NONE \/ profile_ielts = NONE THEN NoFinding
        ELSE IF CmpRaises(profile_ielts, required_ielts) THEN Raised
        ELSE IF profile_ielts < required_ielts THEN Miss("IELTS below required")
        ELSE NoFinding

IeltsCheck(p, r) ==
    LET profile_ielts == Get(p.ielts)
        required_ielts == PyOr(r.min_ielts, r.minimum_ielts)
    IN  IF required_ielts = NONE THEN NoFinding
        ELSE IF profile_ielts = NONE THEN Miss("IELTS score not provided")
        ELSE IF CmpRaises(profile_ielts, required_ielts) THEN Raised
        ELSE IF profile_ielts < required_ielts THEN Miss("IELTS below required")
        ELSE NoFinding

\* FundsCheck with the comparison turned round (funds > required_funds)
FundsCheck_ComparisonFlipped(p, r) ==
    LET funds == Get(p.funds_usd)
        required_funds ==
            IF Truthy(r.min_funds_usd) THEN r.min_funds_usd
            ELSE PyOr(r.minimum_funds_usd, r.minimum_income_usd)
    IN  IF required_funds = NONE THEN NoFinding
        ELSE IF funds = NONE THEN Miss("Funds information not provided")
        ELSE IF CmpRaises(funds, required_funds) THEN Raised
        ELSE IF funds > required_funds THEN Miss("Insufficient funds")
        ELSE NoFinding

\* RiskNotes with `gap >= self.LARGE_FUNDS_GAP`
RiskNotes_AtThreshold(gap) ==
    IF gap >= LARGE_FUNDS_GAP THEN <<"Large funds gap">> ELSE <<>>

\* what `if gap > self.LARGE_FUNDS_GAP: risks.append(...)` appends
RiskNotes(gap) ==
    IF gap > LARGE_FUNDS_GAP THEN <<"Large funds gap">> ELSE <<>>

FundsCheck(p, r) ==
    LET funds == Get(p.funds_usd)
        required_funds ==
            IF Truthy(r.min_funds_usd) THEN r.min_funds_usd
            ELSE PyOr(r.minimum_funds_usd, r.minimum_income_usd)
    IN  IF required_funds = NONE THEN NoFinding
        ELSE IF funds = NONE THEN Miss("Funds information not provided")
        ELSE IF CmpRaises(funds, required_funds) THEN Raised
        ELSE IF funds < required_funds
             THEN [raised |-> FALSE,
                   missing |-> <<"Insufficient funds">>,
                   risks |-> RiskNotes(required_funds - funds),
                   penalties |-> 1]
        ELSE NoFinding

WorkCheck(p, r) ==
    LET years == Get(p.work_experience_years)
        required_years == PyOr(r.work_experience_min_years,
                               r.minimum_work_experience_years)
    IN  IF required_years = NONE THEN NoFinding
        ELSE IF years = NONE THEN Miss("Work experience not provided")
        ELSE IF CmpRaises(years, required_years) THEN Raised
        ELSE IF years < required_years THEN Miss("Insufficient work experience")
        ELSE NoFinding

\* RawScore without the max(0.0, ...) floor
RawScore_NoFloor(penalties) == 100 - (100 * penalties) \div MAX_PENALTIES

\* score = max(0.0, 1.0 - penalties / MAX_PENALTIES), in hundredths
RawScore(penalties) == Max(0, 100 - (100 * penalties) \div MAX_PENALTIES)

\* StatusOf with `score > SCORE_BORDERLINE` for the Borderline band
StatusOf_StrictBorderline(score) ==
    IF score >= SCORE_OK THEN "OK"
    ELSE IF score > SCORE_BORDERLINE THEN "Borderline"
    ELSE "High Risk"

StatusOf(score) ==
    IF score >= SCORE_OK THEN "OK"
    ELSE IF score >= SCORE_BORDERLINE THEN "Borderline"
    ELSE "High Risk"

\* "risk_status": "Risk" if risks else "No Risk"
RiskStatus(risks) == IF risks # <<>> THEN "Risk" ELSE "No Risk"

\* HasRisksKey with gaps["risks"] set unconditionally
HasRisksKey_Always(risks) == TRUE

\* `if risks: gaps["risks"] = risks`: whether gaps gets the key "risks"
HasRisksKey(risks) == risks # <<>>

\* The five checks in source order
Checks(p, r) ==
    <<AgeCheck(p, r), DegreeCheck(p, r), IeltsCheck(p, r),
      FundsCheck(p, r), WorkCheck(p, r)>>

\* (status, score, gaps) of _score_single_rule, or raised = TRUE.  `penalties`
\* is the code's local counter, kept in the record so that properties can
\* speak about it; `risks` is the local list and has_risks_key tells whether
\* gaps carries it under the key "risks".
ScoreSingleRule(p, r) ==
    LET c == Checks(p, r)
        missing == c[1].missing \o c[2].missing \o c[3].missing
                   \o c[4].missing \o c[5].missing
        risks == c[4].risks
        penalties == c[1].penalties + c[2].penalties + c[3].penalties
                     + c[4].penalties + c[5].penalties
        score == RawScore(penalties)
    IN  IF \E i \in 1..5 : c[i].raised
        THEN [raised |-> TRUE, status |-> "", score |-> 0, penalties |-> 0,
              missing_requirements |-> <<>>, risk_status |-> "", risks |-> <<>>,
              has_risks_key |-> FALSE]
        ELSE [raised |-> FALSE,
              status |-> StatusOf(score),
              score |-> score,
              penalties |-> penalties,
              missing_requirements |-> missing,
              risk_status |-> RiskStatus(risks),
              risks |-> risks,
              has_risks_key |-> HasRisksKey(risks)]

----------------------------------------------------------------------------
(* agents/country_finder_agent.py : class constants *)

BEST_THRESHOLD == 8000
ACCEPTABLE_THRESHOLD == 6000

Factors ==
    {"eligibility", "language_alignment", "financial_capacity",
     "visa_difficulty", "quality_of_life", "cost_of_living", "job_market"}

\* WEIGHTS with eligibility at 0.50: a table that no longer sums to 1.0
WEIGHTS_EligibilityHalf ==
    [f \in Factors |->
        CASE f = "eligibility"        -> 50
          [] f = "language_alignment" -> 15
          [] f = "financial_capacity" -> 20
          [] f = "visa_difficulty"    -> 10
          [] f = "quality_of_life"    -> 10
          [] f = "cost_of_living"     -> 10
          [] f = "job_market"         -> 5]

WEIGHTS ==
    [f \in Factors |->
        CASE f = "eligibility"        -> 30
          [] f = "language_alignment" -> 15
          [] f = "financial_capacity" -> 20
          [] f = "visa_difficulty"    -> 10
          [] f = "quality_of_life"    -> 10
          [] f = "cost_of_living"     -> 10
          [] f = "job_market"         -> 5]

----------------------------------------------------------------------------------------------------------------------------------------
(* The weights as the interpreter holds them: IEEE-754 doubles.  A double  *)
(* is modelled by its value counted in units of 2^-57 and written in base  *)
(* 2^16, least significant limb first, so that 1.0 is <<0, 0, 0, 2^9>> and *)
(* every weight, having 53 significant binary digits, is exact.            *)

\* a value from its limbs
Double(l1, l2, l3, l4) == <<l1, l2, l3, l4>>

\* the double a weight literal denotes: 0.30, 0.15, 0.20, 0.10, 0.05
\* (hundredths in, nearest double out)
DoubleOf(hundredths) ==
    CASE hundredths = 30 -> Double(\h9998, \h9999, \h9999, \h0099)
      [] hundredths = 15 -> Double(\hcccc, \hcccc, \hcccc, \h004c)
      [] hundredths = 20 -> Double(\h6668, \h6666, \h6666, \h0066)
      [] hundredths = 10 -> Double(\h3334, \h3333, \h3333, \h0033)
      [] hundredths = 5  -> Double(\h999a, \h9999, \h9999, \h0019)
      [] hundredths = 50 -> Double(0, 0, 0, \h0100)
      [] hundredths = 0  -> Double(0, 0, 0, 0)

\* the exact sum of two values (carry from limb to limb; the sums here
\* stay below 2^64)
AddLimbs(a, b) ==
    LET s1 == a[1] + b[1]
        s2 == a[2] + b[2] + (s1 \div 65536)
        s3 == a[3] + b[3] + (s2 \div 65536)
        s4 == a[4] + b[4] + (s3 \div 65536)
    IN  <<s1 % 65536, s2 % 65536, s3 % 65536, s4 % 65536>>

\* number of binary digits of a limb
BitLength(n) == CHOOSE k \in 0..16 : n < 2 ^ k /\ (k = 0 \/ n >= 2 ^ (k - 1))

\* position of the leading binary digit, 0 for zero
LeadingDigit(x) ==
    IF x[4] # 0 THEN 48 + BitLength(x[4])
    ELSE IF x[3] # 0 THEN 32 + BitLength(x[3])
    ELSE IF x[2] # 0 THEN 16 + BitLength(x[2])
    ELSE BitLength(x[1])

\* rounding that keeps every digit: the sum as real arithmetic has it
RoundToDouble_Exact(x) == x

\* round to 53 significant binary digits, to nearest, ties to even: what
\* the float addition of the interpreter does to the exact sum.  Below
\* 2^64 at most 11 digits are dropped, all of them in the lowest limb.
RoundToDouble(x) ==
    LET drop == LeadingDigit(x) - 53
    IN  IF drop <= 0 THEN x
        ELSE LET ulp   == 2 ^ drop
                 rest  == x[1] % ulp
                 kept  == <<x[1] - rest, x[2], x[3], x[4]>>
                 odd   == (x[1] \div ulp) % 2 = 1
                 above == 2 * rest > ulp
                 tie   == 2 * rest = ulp
             IN  IF above \/ (tie /\ odd)
                 THEN AddLimbs(kept, <<ulp, 0, 0, 0>>)
                 ELSE kept

\* a + b on floats
FloatAdd(a, b) == RoundToDouble(AddLimbs(a, b))

\* the order in which the WEIGHTS literal declares its keys, which is the
\* order sum() walks them in
WeightOrder ==
    <<"eligibility", "language_alignment", "financial_capacity",
      "visa_difficulty", "quality_of_life", "cost_of_living", "job_market">>

\* sum(w.values()): a left-to-right float sum from 0
RECURSIVE FloatSumUpTo(_, _)
FloatSumUpTo(w, n) ==
    IF n = 0 THEN DoubleOf(0)
    ELSE FloatAdd(FloatSumUpTo(w, n - 1), DoubleOf(w[WeightOrder[n]]))

SumOfWeights(w) == FloatSumUpTo(w, Len(WeightOrder))

\* the same sum in exact decimal arithmetic, in hundredths
DecimalSumOfWeights(w) ==
    w["eligibility"] + w["language_alignment"] + w["financial_capacity"]
    + w["visa_difficulty"] + w["quality_of_life"] + w["cost_of_living"]
    + w["job_market"]

KnownCountries ==
    {"Canada", "USA", "Germany", "Netherlands", "Ireland", "Sweden",
     "Australia", "New Zealand"}

CountryRow(vd, ql, cl, jm, langs) ==
    [visa_difficulty |-> vd, quality_of_life |-> ql, cost_of_living |-> cl,
     job_market |-> jm, languages |-> langs]

COUNTRY_DATA ==
    [c \in KnownCountries |->
        CASE c = "Canada"      -> CountryRow(65, 90, 60, 75, {"english", "french"})
          [] c = "USA"         -> CountryRow(40, 85, 50, 85, {"english"})
          [] c = "Germany"     -> CountryRow(70, 90, 75, 80, {"german", "english"})
          [] c = "Netherlands" -> CountryRow(70, 90, 65, 75, {"dutch", "english"})
          [] c = "Ireland"     -> CountryRow(65, 85, 55, 80, {"english"})
          [] c = "Sweden"      -> CountryRow(70, 95, 60, 70, {"swedish", "english"})
          [] c = "Australia"   -> CountryRow(55, 90, 50, 80, {"english"})
          [] c = "New Zealand" -> CountryRow(65, 90, 60, 70, {"english"})]

----------------------------------------------------------------------------
(* CountryFinderAgent sub-scores.  A match result is a record               *)
(* [country, pathway, status, raw_score, missing_requirements,             *)
(*  risk_status, risks, has_risks_key]; rule_gaps is flattened into it.    *)

\* _score_eligibility, in 1/10000
ScoreEligibility(mr) ==
    IF mr.status = "OK" THEN mr.raw_score * 100
    ELSE IF mr.status = "Borderline" THEN mr.raw_score * 80
    ELSE mr.raw_score * 50

\* COUNTRY_DATA.get(country, {}).get("languages", [])
SupportedLanguages(country) ==
    IF country \in KnownCountries THEN COUNTRY_DATA[country].languages ELSE {}

\* (level or "none").lower()
LowerLevel(level) ==
    CASE level = ""   -> "none"
      [] level = "A2" -> "a2"
      [] level = "B1" -> "b1"
      [] level = "B2" -> "b2"
      [] level = "C1" -> "c1"
      [] OTHER        -> level

CefrPoints(level) ==
    IF level \in {"c1", "c2"} THEN 50
    ELSE IF level \in {"b1", "b2"} THEN 40
    ELSE IF level \in {"a1", "a2"} THEN 20
    ELSE 0

\* user_profile.get("ielts", 0): the default applies to an absent key only
IeltsOrZero(p) == IF p.ielts = ABSENT THEN 0 ELSE p.ielts

\* `ielts >= 7.0` raises TypeError on None and on a non-number
LanguageRaises(country, p) ==
    /\ "english" \in SupportedLanguages(country)
    /\ IeltsOrZero(p) \in {NONE, BAD}

\* _score_language_alignment, in hundredths (when it does not raise)
ScoreLanguageAlignment(country, p) ==
    LET langs == SupportedLanguages(country)
        ielts == IeltsOrZero(p)
        english == IF "english" \notin langs THEN 0
                   ELSE IF ielts >= 70 THEN 50
                   ELSE IF ielts >= 60 THEN 40
                   ELSE IF ielts >= 55 THEN 30
                   ELSE IF ielts > 0 THEN 20
                   ELSE 0
        german == IF "german" \in langs
                  THEN CefrPoints(LowerLevel(p.german_level)) ELSE 0
        french == IF "french" \in langs
                  THEN CefrPoints(LowerLevel(p.french_level)) ELSE 0
    IN  Min(english + german + french, 100)

\* the lower-cased text of a missing_requirements entry contains the word
ContainsWord(msg, word) ==
    CASE word = "funds" ->
            msg \in {"Funds information not provided", "Insufficient funds"}
      [] word = "insufficient" ->
            msg \in {"Insufficient funds", "Insufficient work experience"}
      [] OTHER -> FALSE

HasFundsIssue(mr) ==
    \E i \in 1..Len(mr.missing_requirements) :
        \/ ContainsWord(mr.missing_requirements[i], "funds")
        \/ ContainsWord(mr.missing_requirements[i], "insufficient")

\* _score_financial_capacity, in hundredths
ScoreFinancialCapacity(mr) ==
    IF ~HasFundsIssue(mr) THEN 100
    ELSE IF mr.raw_score >= 80 THEN 90
    ELSE IF mr.raw_score >= 60 THEN 70
    ELSE IF mr.raw_score >= 40 THEN 50
    ELSE 30

\* GetCountryFactor with 0.0 for a country COUNTRY_DATA does not hold
GetCountryFactor_DefaultZero(country, factor) ==
    IF country \in KnownCountries THEN COUNTRY_DATA[country][factor] ELSE 0

\* _get_country_factor, in hundredths
GetCountryFactor(country, factor) ==
    IF country \in KnownCountries THEN COUNTRY_DATA[country][factor] ELSE 50

\* round(x, 2) of a score given in 1/1000000: the nearest hundredth
Round2(x) == (x + 50) \div 100

\* _calculate_final_score, in hundredths of a point (when nothing raises);
\* self.WEIGHTS is read from the state
CalculateFinalScore(mr, p) ==
    LET country == mr.country
        weighted ==
              weights["eligibility"] * ScoreEligibility(mr)
            + weights["language_alignment"] * ScoreLanguageAlignment(country, p) * 100
            + weights["financial_capacity"] * ScoreFinancialCapacity(mr) * 100
            + weights["visa_difficulty"] * GetCountryFactor(country, "visa_difficulty") * 100
            + weights["quality_of_life"] * GetCountryFactor(country, "quality_of_life") * 100
            + weights["cost_of_living"] * GetCountryFactor(country, "cost_of_living") * 100
            + weights["job_market"] * GetCountryFactor(country, "job_market") * 100
    IN  Round2(weighted)

\* the match result evaluate_all builds from a (status, score, gaps) tuple
MatchResult(r, s) ==
    [country |-> r.country, pathway |-> r.pathway, status |-> s.status,
     raw_score |-> s.score, missing_requirements |-> s.missing_requirements,
     risk_status |-> s.risk_status, risks |-> s.risks,
     has_risks_key |-> s.has_risks_key]

----------------------------------------------------------------------------
(* Inputs *)

Profile(age, edu, ielts, german, french, funds, work, goal, cit) ==
    [age |-> age, education_level |-> edu, ielts |-> ielts,
     german_level |-> german, french_level |-> french, funds_usd |-> funds,
     work_experience_years |-> work, goal |-> goal, citizenship |-> cit]

\* a rule written with the first key of every alias group
Rule(country, pathway, minAge, maxAge, degree, ielts, funds, work) ==
    [country |-> country, pathway |-> pathway,
     minimum_age |-> minAge, maximum_age |-> maxAge, age_max |-> ABSENT,
     min_degree |-> degree, minimum_degree |-> "",
     min_ielts |-> ielts, minimum_ielts |-> ABSENT,
     min_funds_usd |-> funds, minimum_funds_usd |-> ABSENT,
     minimum_income_usd |-> ABSENT,
     work_experience_min_years |-> work,
     minimum_work_experience_years |-> ABSENT]

\* the same rule written with the last key of every alias group
Aliased(r) ==
    [r EXCEPT !.maximum_age = ABSENT, !.age_max = r.maximum_age,
              !.min_degree = "", !.minimum_degree = r.min_degree,
              !.min_ielts = ABSENT, !.minimum_ielts = r.min_ielts,
              !.min_funds_usd = ABSENT, !.minimum_income_usd = r.min_funds_usd,
              !.work_experience_min_years = ABSENT,
              !.minimum_work_experience_years = r.work_experience_min_years]

\* an empty dict: no key at all
EmptyProfile == Profile(ABSENT, "", ABSENT, "", "", ABSENT, ABSENT, "", "")

IsEmptyProfile(p) ==
    /\ p.age = ABSENT /\ p.ielts = ABSENT /\ p.funds_usd = ABSENT
    /\ p.work_experience_years = ABSENT
    /\ p.education_level = "" /\ p.german_level = "" /\ p.french_level = ""
    /\ p.goal = "" /\ p.citizenship = ""

FundsValues == {18000, 30000, 40000}
RescoreFunds == FundsValues \cup {0, 35000}

ScoreProfiles ==
    { Profile(age, edu, ielts, "B1", "", funds, work, "Study", "Iran") :
        age \in {ABSENT, 25},
        edu \in {"", "Bachelor", "mba"},
        ielts \in {ABSENT, 55, 70},
        funds \in {ABSENT} \cup FundsValues,
        work \in {ABSENT, 1, 3} }
    \cup
    { Profile(25, "Bachelor", NONE, "", "C1", 18000, NONE, "", "Iran"),
      Profile(NONE, "", 65, "", "", NONE, 3, "", "") }

ScoreRules ==
    { Rule(country, "Study", minAge, maxAge, degree, ielts, funds, work) :
        country \in {"Germany", "Atlantis"},
        minAge \in {ABSENT, 18, 30},
        maxAge \in {ABSENT, 20},
        degree \in {"", "Master", "doctorate"},
        ielts \in {ABSENT, 60},
        funds \in {ABSENT, 35000},
        work \in {ABSENT, 2} }
    \cup
    { Aliased(Rule("Canada", "Work", 30, 20, "Master", 60, 35000, 2)),
      Aliased(Rule("USA", "Study", ABSENT, 35, " PhD ", ABSENT, 35000, ABSENT)),
      Rule("Germany", "Study", 0, 0, "High School", 0, 0, 0),
      Rule("Germany", "Study", NONE, NONE, "diploma", NONE, NONE, NONE),
      Rule("Atlantis", "Study", 18, BAD, "", ABSENT, ABSENT, ABSENT),
      Rule("Germany", "Study", ABSENT, ABSENT, "", BAD, ABSENT, ABSENT),
      Rule("Germany", "Study", ABSENT, ABSENT, "", ABSENT, BAD, BAD) }

NoSingle ==
    [raised |-> FALSE, status |-> "", score |-> 0, penalties |-> 0,
     missing_requirements |-> <<>>, risk_status |-> "", risks |-> <<>>,
     has_risks_key |-> FALSE]
NoRule == Rule("", "", ABSENT, ABSENT, "", ABSENT, ABSENT, ABSENT)
NoFinal == [raised |-> FALSE, score |-> 0, financial_capacity |-> 0]
NoPrev == [funds |-> ABSENT, final |-> 0]
NoMatchOut == [raised |-> "", results |-> <<>>]
NoTop == [raised |-> "", country |-> ""]
NoClassification ==
    [best_options |-> <<>>, acceptable |-> <<>>, not_recommended |-> <<>>]
NoRankOut ==
    [raised |-> "", best_options |-> <<>>, acceptable |-> <<>>,
     not_recommended |-> <<>>, scores |-> <<>>, detailed_breakdown |-> <<>>]

\* _calculate_final_score as a call: it raises when the language score does;
\* the financial_capacity entry of its local `factors` is kept with the result
FinalOutcome(mr, p) ==
    IF LanguageRaises(mr.country, p)
    THEN [raised |-> TRUE, score |-> 0, financial_capacity |-> 0]
    ELSE [raised |-> FALSE, score |-> CalculateFinalScore(mr, p),
          financial_capacity |-> ScoreFinancialCapacity(mr)]

----------------------------------------------------------------------------
(* Single-rule runs: one profile against one rule, scored by MatchAgent and *)
(* then by CountryFinderAgent; then the same with another funds_usd.       *)

InitScore ==
    /\ profile \in ScoreProfiles
    /\ rule \in ScoreRules
    /\ rules = <<>>
    /\ logger = "none"
    /\ pc = "start"
    /\ matchOut = NoMatchOut
    /\ rankOut = NoRankOut
    /\ top = NoTop
    /\ single = NoSingle
    /\ final = NoFinal
    /\ prev = NoPrev
    /\ scored = <<>>
    /\ classification = NoClassification
    /\ weights = WEIGHTS
    /\ request = NoRequest /\ plan = NoPlan
    /\ sessions = NoSessions /\ history = NoHistory

ScoreRule ==
    /\ pc = "start"
    /\ single' = ScoreSingleRule(profile, rule)
    /\ pc' = "scored"
    /\ UNCHANGED <<profile, rules, logger, matchOut, rankOut, top, rule, final, prev>>
    /\ UNCHANGED <<scored, classification, weights>>
    /\ UNCHANGED <<request, plan, sessions, history>>

FinalScore ==
    /\ pc = "scored"
    /\ ~single.raised
    /\ final' = FinalOutcome(MatchResult(rule, single), profile)
    /\ pc' = "final"
    /\ UNCHANGED <<profile, rules, logger, matchOut, rankOut, top, rule, single, prev>>
    /\ UNCHANGED <<scored, classification, weights>>
    /\ UNCHANGED <<request, plan, sessions, history>>

Rescore ==
    /\ pc = "final"
    /\ ~final.raised
    /\ profile.funds_usd >= 0
    /\ \E f \in RescoreFunds :
        /\ f # profile.funds_usd
        /\ profile' = [profile EXCEPT !.funds_usd = f]
    /\ single' = ScoreSingleRule(profile', rule)
    /\ final' = FinalOutcome(MatchResult(rule, single'), profile')
    /\ prev' = [funds |-> profile.funds_usd, final |-> final.score]
    /\ pc' = "refinal"
    /\ UNCHANGED <<rules, logger, matchOut, rankOut, top, rule>>
    /\ UNCHANGED <<scored, classification, weights>>
    /\ UNCHANGED <<request, plan, sessions, history>>

NextScore == ScoreRule \/ FinalScore \/ Rescore

SpecScore == InitScore /\ [][NextScore]_vars

----------------------------------------------------------------------------
(* The injected logger.  A "raising" logger raises at the call sites in     *)
(* `fails`; the exception leaves the agent unless the call is wrapped in   *)
(* try/except.  The call sites are                                         *)
(*   entry       evaluate_all: log_agent_call on entry                     *)
(*   rule        _score_single_rule: log_tool_call                         *)
(*   exception   evaluate_all: log_exception in the except block           *)
(*   result      evaluate_all: log_tool_call before the return             *)
(*   finder_init CountryFinderAgent.__init__: log_agent_call               *)
(*   rank        rank_countries: log_agent_call on entry                   *)
(*   rank_result rank_countries: log_tool_call before the return           *)
(*   top         get_top_recommendation: log_tool_call                     *)

\* the logger calls that sit inside `try: ... except Exception: pass`
GuardedSites == {"rule", "result", "finder_init", "rank", "rank_result", "top"}

\* the logger calls each operation makes
SitesOf(operation) ==
    CASE operation = "evaluate_all" -> {"entry", "rule", "exception", "result"}
      [] operation = "rank_countries" -> {"finder_init", "rank", "rank_result"}
      [] operation = "get_top_recommendation" -> {"rank", "rank_result", "top"}
      [] operation = "finder_top" -> {"finder_init", "rank", "rank_result", "top"}
      [] operation = "rank_again" -> {"rank", "rank_result"}

\* the sets of calls of an operation at which the logger may raise
FailChoices(lg, operation) ==
    IF lg = "raising" THEN SUBSET SitesOf(operation) ELSE {{}}

\* the logger call at `site` raises out of the statement that makes it
LogEscapes(lg, fails, site) ==
    lg = "raising" /\ site \in fails /\ site \notin GuardedSites

----------------------------------------------------------------------------
(* MatchAgent.evaluate_all *)

\* goal = (profile.get("goal") or "").strip().lower()
GoalOf(p) == StripLower(p.goal)

\* the goal filter lets the rule through (the rule is not `continue`d)
GoalFilterPasses(goal, pathway) ==
    ~(/\ goal # ""
      /\ pathway # ""
      /\ goal \in GoalsWithAliases
      /\ pathway \notin GOAL_ALIASES[goal])

\* the body of the try block raises for this rule
RuleRaises(p, r, lg, fails) ==
    ScoreSingleRule(p, r).raised \/ LogEscapes(lg, fails, "rule")

RECURSIVE EvaluateFrom(_, _, _, _, _, _)
\* the for loop of evaluate_all from rule i on, `acc` being `results` so far
EvaluateFrom(p, rs, lg, fails, i, acc) ==
    IF i > Len(rs) THEN [raised |-> "", results |-> acc]
    ELSE LET r == rs[i] IN
         IF r.pathway = BADSTR
         THEN [raised |-> "AttributeError", results |-> <<>>]
         ELSE IF ~GoalFilterPasses(GoalOf(p), StripLower(r.pathway))
         THEN EvaluateFrom(p, rs, lg, fails, i + 1, acc)
         ELSE IF RuleRaises(p, r, lg, fails)
         THEN IF lg # "none" /\ LogEscapes(lg, fails, "exception")
              THEN [raised |-> "LoggerError", results |-> <<>>]
              ELSE EvaluateFrom(p, rs, lg, fails, i + 1, acc)
         ELSE EvaluateFrom(p, rs, lg, fails, i + 1,
                           Append(acc, MatchResult(r, ScoreSingleRule(p, r))))

\* what evaluate_all returns or raises
EvaluateAllOutcome(p, rs, lg, fails) ==
    IF IsEmptyProfile(p) THEN [raised |-> "ValueError", results |-> <<>>]
    ELSE IF lg # "none" /\ LogEscapes(lg, fails, "entry")
    THEN [raised |-> "LoggerError", results |-> <<>>]
    ELSE IF p.goal = BADSTR THEN [raised |-> "AttributeError", results |-> <<>>]
    ELSE LET out == EvaluateFrom(p, rs, lg, fails, 1, <<>>) IN
         IF out.raised = "" /\ lg # "none" /\ LogEscapes(lg, fails, "result")
         THEN [raised |-> "LoggerError", results |-> <<>>]
         ELSE out

----------------------------------------------------------------------------
(* CountryFinderAgent: rank_countries and get_top_recommendation *)

\* a scored_countries item of rank_countries
ScoredItem(mr, p) ==
    [country |-> mr.country, score |-> CalculateFinalScore(mr, p),
     match_result |-> mr, pathway |-> mr.pathway]

RECURSIVE ScoreFrom(_, _, _, _)
\* the scoring loop of rank_countries from result i on; a result without a
\* country is skipped; raised when _calculate_final_score raises
ScoreFrom(results, p, i, acc) ==
    IF i > Len(results) THEN [raised |-> "", scored |-> acc]
    ELSE LET mr == results[i] IN
         IF mr.country = "" THEN ScoreFrom(results, p, i + 1, acc)
         ELSE IF LanguageRaises(mr.country, p)
         THEN [raised |-> "TypeError", scored |-> <<>>]
         ELSE ScoreFrom(results, p, i + 1, Append(acc, ScoredItem(mr, p)))

\* ScoresDict keeping the score written first for a country
ScoresDict_FirstWins(items) ==
    [c \in {items[i].country : i \in 1..Len(items)} |->
        LET first == CHOOSE i \in 1..Len(items) :
                        /\ items[i].country = c
                        /\ \A j \in 1..(i - 1) : items[j].country # c
        IN  items[first].score]

\* scores_dict: every country of the scored list, with the score written last
ScoresDict(items) ==
    [c \in {items[i].country : i \in 1..Len(items)} |->
        LET last == CHOOSE i \in 1..Len(items) :
                        /\ items[i].country = c
                        /\ \A j \in (i + 1)..Len(items) : items[j].country # c
        IN  items[last].score]

\* InsertByScore putting x in front of its equals: a sort that is not stable
InsertByScore_BeforeEquals(sorted, x) ==
    LET k == Cardinality({i \in 1..Len(sorted) : sorted[i].score > x.score})
    IN  SubSeq(sorted, 1, k) \o <<x>> \o SubSeq(sorted, k + 1, Len(sorted))

\* x put into a list sorted by non-increasing score, behind its equals
InsertByScore(sorted, x) ==
    LET k == Cardinality({i \in 1..Len(sorted) : sorted[i].score >= x.score})
    IN  SubSeq(sorted, 1, k) \o <<x>> \o SubSeq(sorted, k + 1, Len(sorted))

RECURSIVE SortByScore(_, _, _)
\* scored_countries.sort(key=score, reverse=True): a stable sort
SortByScore(items, i, acc) ==
    IF i > Len(items) THEN acc
    ELSE SortByScore(items, i + 1, InsertByScore(acc, items[i]))

\* _generate_reason: the template chosen and what is put into it
GenerateReason(item, category) ==
    LET gaps == item.match_result.missing_requirements IN
    IF category = "best"
    THEN [template |-> "Strong match", status |-> item.match_result.status,
          gaps |-> <<>>]
    ELSE IF gaps # <<>>
    THEN [template |-> "Acceptable match but has minor gaps", status |-> "",
          gaps |-> SubSeq(gaps, 1, Min(2, Len(gaps)))]
    ELSE [template |-> "Acceptable match", status |-> item.match_result.status,
          gaps |-> <<>>]

TierEntry(item, category) ==
    [country |-> item.country, score |-> item.score, pathway |-> item.pathway,
     reason |-> GenerateReason(item, category)]

\* TierOf with `score > self.BEST_THRESHOLD`
TierOf_StrictBest(score) ==
    IF score > BEST_THRESHOLD THEN "best"
    ELSE IF score >= ACCEPTABLE_THRESHOLD THEN "acceptable"
    ELSE "not_recommended"

\* the branch the if/elif/else of _classify_countries takes
TierOf(score) ==
    IF score >= BEST_THRESHOLD THEN "best"
    ELSE IF score >= ACCEPTABLE_THRESHOLD THEN "acceptable"
    ELSE "not_recommended"

RECURSIVE ClassifyFrom(_, _, _)
\* the loop of _classify_countries
ClassifyFrom(items, i, acc) ==
    IF i > Len(items) THEN acc
    ELSE LET item == items[i] IN
         ClassifyFrom(items, i + 1,
            IF TierOf(item.score) = "best"
            THEN [acc EXCEPT !.best_options = Append(@, TierEntry(item, "best"))]
            ELSE IF TierOf(item.score) = "acceptable"
            THEN [acc EXCEPT !.acceptable = Append(@, TierEntry(item, "acceptable"))]
            ELSE [acc EXCEPT !.not_recommended = Append(@, item.country)])

ClassifyCountries(scored_countries) ==
    ClassifyFrom(scored_countries, 1, NoClassification)

\* one detailed_breakdown entry; the factor scores are on the 0-100 scale,
\* in hundredths
BreakdownEntry(item, p) ==
    [country |-> item.country,
     pathway |-> item.pathway,
     final_score |-> item.score,
     eligibility_status |-> item.match_result.status,
     eligibility_raw_score |-> item.match_result.raw_score,
     language_score |-> ScoreLanguageAlignment(item.country, p) * 100,
     financial_score |-> ScoreFinancialCapacity(item.match_result) * 100,
     visa_difficulty |-> GetCountryFactor(item.country, "visa_difficulty") * 100,
     quality_of_life |-> GetCountryFactor(item.country, "quality_of_life") * 100,
     cost_of_living |-> GetCountryFactor(item.country, "cost_of_living") * 100,
     job_market |-> GetCountryFactor(item.country, "job_market") * 100]

RankRaised(exc) ==
    [raised |-> exc, best_options |-> <<>>, acceptable |-> <<>>,
     not_recommended |-> <<>>, scores |-> <<>>, detailed_breakdown |-> <<>>]

\* what rank_countries returns or raises
RankCountriesOutcome(results, p, lg, fails) ==
    LET s == ScoreFrom(results, p, 1, <<>>) IN
    IF s.raised # "" THEN RankRaised(s.raised)
    ELSE LET sorted == SortByScore(s.scored, 1, <<>>)
             tiers == ClassifyCountries(sorted)
         IN  [raised |-> "",
              best_options |-> tiers.best_options,
              acceptable |-> tiers.acceptable,
              not_recommended |-> tiers.not_recommended,
              scores |-> ScoresDict(s.scored),
              detailed_breakdown |->
                  [i \in 1..Len(sorted) |-> BreakdownEntry(sorted[i], p)]]

\* FinderRejects without the `if not user_profile` test
FinderRejects_ProfileUnchecked(results, p) == results = <<>>

\* CountryFinderAgent.__init__ raises ValueError
FinderRejects(results, p) == results = <<>> \/ IsEmptyProfile(p)

\* CountryFinderAgent(match_results, user_profile, logger).rank_countries()
FinderOutcome(results, p, lg, fails) ==
    IF FinderRejects(results, p) THEN RankRaised("ValueError")
    ELSE RankCountriesOutcome(results, p, lg, fails)

NoRecommendation == "<None>"

\* TopOutcome looking at acceptable before best_options
TopOutcome_AcceptableFirst(results, p, lg, fails) ==
    LET ranking == RankCountriesOutcome(results, p, lg, fails) IN
    IF ranking.raised # "" THEN [raised |-> ranking.raised, country |-> ""]
    ELSE IF ranking.acceptable # <<>>
    THEN [raised |-> "", country |-> ranking.acceptable[1].country]
    ELSE IF ranking.best_options # <<>>
    THEN [raised |-> "", country |-> ranking.best_options[1].country]
    ELSE [raised |-> "", country |-> NoRecommendation]

\* what get_top_recommendation returns or raises
TopOutcome(results, p, lg, fails) ==
    LET ranking == RankCountriesOutcome(results, p, lg, fails) IN
    IF ranking.raised # "" THEN [raised |-> ranking.raised, country |-> ""]
    ELSE IF ranking.best_options # <<>>
    THEN [raised |-> "", country |-> ranking.best_options[1].country]
    ELSE IF ranking.acceptable # <<>>
    THEN [raised |-> "", country |-> ranking.acceptable[1].country]
    ELSE [raised |-> "", country |-> NoRecommendation]

\* CountryFinderAgent(match_results, user_profile, logger)
\*   .get_top_recommendation()
FinderTopOutcome(results, p, lg, fails) ==
    IF FinderRejects(results, p) THEN [raised |-> "ValueError", country |-> ""]
    ELSE TopOutcome(results, p, lg, fails)

----------------------------------------------------------------------------
(* The pipeline of Orchestrator.process / Orchestrator.run: MatchAgent(rules)*)
(* then evaluate_all, then CountryFinderAgent(...).rank_countries(), then  *)
(* get_top_recommendation().  pc is "new" before the constructor ran,      *)
(* "rejected" when the constructor raised ValueError, "failed" when a      *)
(* later call raised.                                                      *)

MaxRules == 2

CatalogRules ==
    { Rule("Germany", "Study", 18, ABSENT, "", 60, 11000, ABSENT),
      Rule("USA", "Study", ABSENT, ABSENT, "", ABSENT, 35000, ABSENT),
      Rule("Germany", "Work", ABSENT, 45, "Bachelor", ABSENT, ABSENT, 2),
      Rule("Canada", "PR", 18, ABSENT, "Master", 60, 35000, 2),
      Rule("Canada", "", ABSENT, ABSENT, "", ABSENT, ABSENT, ABSENT),
      Rule("Atlantis", "Student", ABSENT, ABSENT, "", 60, ABSENT, ABSENT),
      Rule("Sweden", "Study", ABSENT, ABSENT, "", BAD, ABSENT, ABSENT),
      Rule("Ireland", BADSTR, ABSENT, ABSENT, "", ABSENT, ABSENT, ABSENT),
      Rule("", "Work", ABSENT, ABSENT, "", ABSENT, ABSENT, 2) }

RECURSIVE SeqsUpTo(_, _)
\* the non-empty sequences of distinct elements of S of length at most n
SeqsUpTo(S, n) ==
    IF n = 0 THEN {}
    ELSE LET shorter == SeqsUpTo(S, n - 1) IN
         {<<x>> : x \in S} \cup shorter
            \cup {Append(qx[1], qx[2]) :
                    qx \in {z \in shorter \X S :
                              \A i \in 1..Len(z[1]) : z[1][i] # z[2]}}

Catalogs == SeqsUpTo(CatalogRules, MaxRules)

PipelineProfiles ==
    { Profile(27, "Bachelor", ielts, "", "B1", funds, work, goal, "Iran") :
        ielts \in {ABSENT, 65},
        funds \in {18000, 40000},
        work \in {1, 3},
        goal \in {"", "Study", "Work", "PR", " work "} }
    \cup { EmptyProfile }

Init ==
    /\ profile \in PipelineProfiles
    /\ rules \in Catalogs \cup {<<>>}
    /\ logger \in {"none", "ok", "raising"}
    /\ pc = "new"
    /\ matchOut = NoMatchOut
    /\ rankOut = NoRankOut
    /\ top = NoTop
    /\ rule = NoRule
    /\ single = NoSingle
    /\ final = NoFinal
    /\ prev = NoPrev
    /\ scored = <<>>
    /\ classification = NoClassification
    /\ weights = WEIGHTS
    /\ request = NoRequest /\ plan = NoPlan
    /\ sessions = NoSessions /\ history = NoHistory

\* MatchAgent.__init__ with `if not rules: raise ValueError` left out
MatchAgentRejects_Nothing(rs) == FALSE

\* MatchAgent.__init__ raises ValueError: `if not rules`
MatchAgentRejects(rs) == rs = <<>>

\* MatchAgent(rules, logger)
NewMatchAgent ==
    /\ pc = "new"
    /\ pc' = IF MatchAgentRejects(rules) THEN "rejected" ELSE "ready"
    /\ UNCHANGED <<profile, rules, logger, matchOut, rankOut, top, rule, single, final, prev>>
    /\ UNCHANGED <<scored, classification, weights>>
    /\ UNCHANGED <<request, plan, sessions, history>>

EvaluateAll ==
    /\ pc = "ready"
    /\ \E fails \in FailChoices(logger, "evaluate_all") :
        matchOut' = EvaluateAllOutcome(profile, rules, logger, fails)
    /\ pc' = IF matchOut'.raised # "" THEN "failed" ELSE "matched"
    /\ UNCHANGED <<profile, rules, logger, rankOut, top, rule, single, final, prev>>
    /\ UNCHANGED <<scored, classification, weights>>
    /\ UNCHANGED <<request, plan, sessions, history>>

RankCountries ==
    /\ pc = "matched"
    /\ \E fails \in FailChoices(logger, "rank_countries") :
        rankOut' = FinderOutcome(matchOut.results, profile, logger, fails)
    /\ pc' = IF rankOut'.raised # "" THEN "failed" ELSE "ranked"
    /\ UNCHANGED <<profile, rules, logger, matchOut, top, rule, single, final, prev>>
    /\ UNCHANGED <<scored, classification, weights>>
    /\ UNCHANGED <<request, plan, sessions, history>>

GetTopRecommendation ==
    /\ pc = "ranked"
    /\ \E fails \in FailChoices(logger, "get_top_recommendation") :
        top' = TopOutcome(matchOut.results, profile, logger, fails)
    /\ pc' = "done"
    /\ UNCHANGED <<profile, rules, logger, matchOut, rankOut, rule, single, final, prev>>
    /\ UNCHANGED <<scored, classification, weights>>
    /\ UNCHANGED <<request, plan, sessions, history>>

Next == NewMatchAgent \/ EvaluateAll \/ RankCountries \/ GetTopRecommendation

Spec == Init /\ [][Next]_vars

----------------------------------------------------------------------------
(* CountryFinderAgent on match results its caller wrote by hand, as the    *)
(* tests of the repository do: the constructor followed by rank_countries  *)
(* and get_top_recommendation, or by get_top_recommendation alone.         *)

MaxResults == 3

\* a match result without risk notes
GivenResult(country, pathway, status, raw_score, missing) ==
    [country |-> country, pathway |-> pathway, status |-> status,
     raw_score |-> raw_score, missing_requirements |-> missing,
     risk_status |-> "No Risk", risks |-> <<>>, has_risks_key |-> FALSE]

GivenResults ==
    { GivenResult("Germany", "Study", "OK", 90, <<>>),
      GivenResult("Germany", "Work", "OK", 90, <<>>),
      GivenResult("Germany", "PR", "High Risk", 0,
                  <<"Insufficient funds", "Insufficient work experience">>),
      GivenResult("Canada", "Study", "Borderline", 70, <<"Insufficient funds">>),
      GivenResult("Canada", "PR", "High Risk", 20, <<"Insufficient funds">>),
      GivenResult("USA", "Study", "OK", 100, <<>>),
      GivenResult("Atlantis", "Study", "OK", 100, <<>>),
      GivenResult("", "Work", "OK", 100, <<>>) }

GivenLists == SeqsUpTo(GivenResults, MaxResults) \cup {<<>>}

FinderProfiles ==
    { Profile(27, "Bachelor", ielts, german, "", 20000, 3, "Study", "Iran") :
        ielts \in {ABSENT, NONE, 65, 75},
        german \in {"", "B2"} }
    \cup { EmptyProfile }

InitFinder ==
    /\ profile \in FinderProfiles
    /\ \E given \in GivenLists : matchOut = [raised |-> "", results |-> given]
    /\ logger \in {"none", "raising"}
    /\ pc = "matched"
    /\ rules = <<>>
    /\ rankOut = NoRankOut
    /\ top = NoTop
    /\ rule = NoRule
    /\ single = NoSingle
    /\ final = NoFinal
    /\ prev = NoPrev
    /\ scored = <<>>
    /\ classification = NoClassification
    /\ weights = WEIGHTS
    /\ request = NoRequest /\ plan = NoPlan
    /\ sessions = NoSessions /\ history = NoHistory

\* CountryFinderAgent(...).get_top_recommendation() with no rank_countries
\* call before it
GetTopRecommendationFirst ==
    /\ pc = "matched"
    /\ \E fails \in FailChoices(logger, "finder_top") :
        top' = FinderTopOutcome(matchOut.results, profile, logger, fails)
    /\ pc' = IF top'.raised # "" THEN "failed" ELSE "asked"
    /\ UNCHANGED <<profile, rules, logger, matchOut, rankOut, rule, single, final, prev>>
    /\ UNCHANGED <<scored, classification, weights>>
    /\ UNCHANGED <<request, plan, sessions, history>>

\* a second rank_countries() on the agent that has ranked once
RankCountriesAgain ==
    /\ pc = "ranked"
    /\ \E fails \in FailChoices(logger, "rank_again") :
        rankOut' = RankCountriesOutcome(matchOut.results, profile, logger, fails)
    /\ pc' = IF rankOut'.raised # "" THEN "failed" ELSE "reranked"
    /\ UNCHANGED <<profile, rules, logger, matchOut, top, rule, single, final, prev>>
    /\ UNCHANGED <<scored, classification, weights>>
    /\ UNCHANGED <<request, plan, sessions, history>>

\* rank_countries() on the agent that was asked for its top recommendation
RankCountriesAfterTop ==
    /\ pc = "asked"
    /\ \E fails \in FailChoices(logger, "rank_again") :
        rankOut' = RankCountriesOutcome(matchOut.results, profile, logger, fails)
    /\ pc' = IF rankOut'.raised # "" THEN "failed" ELSE "done"
    /\ UNCHANGED <<profile, rules, logger, matchOut, top, rule, single, final, prev>>
    /\ UNCHANGED <<scored, classification, weights>>
    /\ UNCHANGED <<request, plan, sessions, history>>

NextFinder ==
    \/ RankCountries
    \/ GetTopRecommendation
    \/ GetTopRecommendationFirst
    \/ RankCountriesAgain
    \/ RankCountriesAfterTop

SpecFinder == InitFinder /\ [][NextFinder]_vars

----------------------------------------------------------------------------
(* _classify_countries on its own: a scored_countries list, sorted by      *)
(* non-increasing score as rank_countries leaves it, is classified.        *)

MaxScored == 4

\* final scores at and next to the two thresholds, and the two ends
BoundaryScores == {0, 5999, 6000, 7999, 8000, 10000}

\* a scored_countries item with a given score
ScoredEntry(country, score) ==
    [country |-> country, score |-> score,
     match_result |-> GivenResult(country, "Study", "OK", 90, <<>>),
     pathway |-> "Study"]

ScoredLists ==
    { items \in SeqsUpTo({ScoredEntry(c, x) : c \in {"Germany", "Canada"},
                                              x \in BoundaryScores}, MaxScored) :
        \A i \in 1..(Len(items) - 1) : items[i].score >= items[i + 1].score }

InitClassify ==
    /\ scored \in ScoredLists
    /\ classification = NoClassification
    /\ weights = WEIGHTS
    /\ request = NoRequest /\ plan = NoPlan
    /\ sessions = NoSessions /\ history = NoHistory
    /\ pc = "sorted"
    /\ profile = EmptyProfile
    /\ rules = <<>>
    /\ logger = "none"
    /\ matchOut = NoMatchOut
    /\ rankOut = NoRankOut
    /\ top = NoTop
    /\ rule = NoRule
    /\ single = NoSingle
    /\ final = NoFinal
    /\ prev = NoPrev

\* classification = self._classify_countries(scored_countries)
Classify ==
    /\ pc = "sorted"
    /\ classification' = ClassifyCountries(scored)
    /\ pc' = "classified"
    /\ UNCHANGED <<profile, rules, logger, matchOut, rankOut, top, rule, single, final, prev>>
    /\ UNCHANGED <<scored, weights>>
    /\ UNCHANGED <<request, plan, sessions, history>>

NextClassify == Classify

SpecClassify == InitClassify /\ [][NextClassify]_vars

----------------------------------------------------------------------------
(* Vocabulary of the properties of single-rule runs *)

\* the missing_requirements texts each check can append
CheckMessages(i) ==
    CASE i = 1 -> {"Age below minimum", "Age above maximum"}
      [] i = 2 -> {"Unknown degree level", "Degree below required"}
      [] i = 3 -> {"IELTS score not provided", "IELTS below required"}
      [] i = 4 -> {"Funds information not provided", "Insufficient funds"}
      [] i = 5 -> {"Work experience not provided", "Insufficient work experience"}

\* number of entries of a missing_requirements list that come from check i
EntriesOf(missing, i) ==
    Cardinality({k \in 1..Len(missing) : missing[k] \in CheckMessages(i)})

\* the profile has no value for the field check i reads
ProfileLacks(p, i) ==
    CASE i = 1 -> p.age \in {ABSENT, NONE}
      [] i = 2 -> p.education_level = ""
      [] i = 3 -> p.ielts \in {ABSENT, NONE}
      [] i = 4 -> p.funds_usd \in {ABSENT, NONE}
      [] i = 5 -> p.work_experience_years \in {ABSENT, NONE}

\* the values the rule holds under the keys check i reads
RuleKeys(r, i) ==
    CASE i = 1 -> {r.minimum_age, r.maximum_age, r.age_max}
      [] i = 3 -> {r.min_ielts, r.minimum_ielts}
      [] i = 4 -> {r.min_funds_usd, r.minimum_funds_usd, r.minimum_income_usd}
      [] i = 5 -> {r.work_experience_min_years, r.minimum_work_experience_years}

\* the rule gives a value under some key of check i
RuleSpecifies(r, i) ==
    IF i = 2 THEN r.min_degree # "" \/ r.minimum_degree # ""
    ELSE \E v \in RuleKeys(r, i) : v \notin {ABSENT, NONE}

\* the rule gives a non-zero value under some key of check i
RuleSpecifiesNonZero(r, i) ==
    IF i = 2 THEN r.min_degree # "" \/ r.minimum_degree # ""
    ELSE \E v \in RuleKeys(r, i) : Truthy(v)

Scored == pc \in {"scored", "final", "refinal"} /\ ~single.raised
Finalled == pc \in {"final", "refinal"} /\ ~single.raised /\ ~final.raised

\* check i added exactly n penalties and n missing_requirements entries
CheckAdded(i, n) ==
    /\ EntriesOf(single.missing_requirements, i) = n
    /\ Checks(profile, rule)[i].penalties = n

----------------------------------------------------------------------------
(* C3, as claimed: in _score_single_rule every one of the five checks adds *)
(* exactly one penalty and one missing_requirements entry when the rule    *)
(* specifies its threshold and the profile lacks the field, and adds       *)
(* nothing when the rule has no threshold for it.                          *)
C3_MissingRequiredPenalizedAllChecks ==
    Scored =>
        \A i \in 1..5 :
            /\ (RuleSpecifies(rule, i) /\ ProfileLacks(profile, i)) => CheckAdded(i, 1)
            /\ ~RuleSpecifies(rule, i) => CheckAdded(i, 0)

(* C3, amended: the IELTS, funds and work-experience checks add exactly    *)
(* one penalty and one entry when the rule gives a non-zero threshold and  *)
(* the profile lacks the field; the age and education checks add nothing   *)
(* when the profile lacks the field; and every check adds nothing when the *)
(* rule gives no threshold for it, whatever the profile holds.             *)
C3_MissingRequiredPenalized ==
    Scored =>
        /\ \A i \in {3, 4, 5} :
            (RuleSpecifiesNonZero(rule, i) /\ ProfileLacks(profile, i)) => CheckAdded(i, 1)
        /\ \A i \in {1, 2} : ProfileLacks(profile, i) => CheckAdded(i, 0)
        /\ \A i \in 1..5 : ~RuleSpecifies(rule, i) => CheckAdded(i, 0)

C3_Witness ==
    /\ pc = "scored" /\ ~single.raised
    /\ profile.ielts = ABSENT /\ rule.min_ielts = 60
    /\ profile.age = ABSENT /\ rule.minimum_age = 30
    /\ profile.funds_usd = 40000 /\ rule.min_funds_usd = ABSENT
    /\ single.missing_requirements = <<"IELTS score not provided">>
    /\ single.penalties = 1

(* C4: the financial-capacity sub-score of a match result produced by      *)
(* MatchAgent is 1.0 whenever the funds check did not fail, whatever other *)
(* checks failed, and is banded by raw_score only when the funds check     *)
(* failed.                                                                 *)
C4_FinancialFullUnlessFundsFailed ==
    Finalled =>
        IF EntriesOf(single.missing_requirements, 4) = 0
        THEN final.financial_capacity = 100
        ELSE final.financial_capacity =
                (IF single.score >= 80 THEN 90
                 ELSE IF single.score >= 60 THEN 70
                 ELSE IF single.score >= 40 THEN 50 ELSE 30)

(* C7: for a fixed rule, country and all other profile fields, the final   *)
(* score obtained with funds_usd = f2 is at least the one obtained with    *)
(* funds_usd = f1, for all 0 <= f1 <= f2.                                  *)
C7_FinalScoreMonotoneInFunds ==
    (pc = "refinal" /\ ~single.raised /\ ~final.raised) =>
        /\ prev.funds <= profile.funds_usd => prev.final <= final.score
        /\ profile.funds_usd <= prev.funds => final.score <= prev.final

C7_Witness ==
    /\ pc = "refinal" /\ ~final.raised
    /\ prev.funds = 18000 /\ profile.funds_usd = 40000
    /\ rule.min_funds_usd = 35000
    /\ prev.final < final.score

(* C8: for every match result produced by MatchAgent, every profile and    *)
(* every country, known to COUNTRY_DATA or not, the final score lies in    *)
(* [0, 100].                                                               *)
C8_FinalScoreInRange ==
    Finalled => (0 <= final.score /\ final.score <= 10000)

C8_Witness ==
    /\ pc = "final" /\ ~final.raised
    /\ rule.country \in KnownCountries
    /\ single.penalties = 0
    /\ final.score > 9000

(* C9: raw_score = max(0, 1 - p/5) for the number p of penalties fired; p  *)
(* can reach 6 and raw_score still lies in [0, 1].                         *)
C9_RawScoreFormula ==
    Scored =>
        /\ single.penalties \in 0..6
        /\ single.score = (IF single.penalties >= 5 THEN 0
                           ELSE 100 - 20 * single.penalties)
        /\ 0 <= single.score /\ single.score <= 100

C9_Witness ==
    /\ pc = "scored" /\ ~single.raised
    /\ rule.minimum_age > PyOr(rule.maximum_age, rule.age_max)
    /\ single.penalties = 6
    /\ single.score = 0

(* C10: status is a function of raw_score alone: OK iff raw_score >= 0.75  *)
(* (0 or 1 penalty), Borderline iff 0.4 <= raw_score < 0.75 (2 or 3        *)
(* penalties), High Risk iff raw_score < 0.4 (4 or more penalties).        *)
C10_StatusFromRawScore ==
    Scored =>
        /\ single.status \in {"OK", "Borderline", "High Risk"}
        /\ single.status = "OK" <=> single.score >= 75
        /\ single.status = "OK" <=> single.penalties <= 1
        /\ single.status = "Borderline" <=> (40 <= single.score /\ single.score < 75)
        /\ single.status = "Borderline" <=> single.penalties \in {2, 3}
        /\ single.status = "High Risk" <=> single.score < 40
        /\ single.status = "High Risk" <=> single.penalties >= 4

C10_Witness ==
    /\ pc = "scored" /\ ~single.raised
    /\ single.penalties = 3
    /\ single.score = 40
    /\ single.status = "Borderline"

----------------------------------------------------------------------------
(* Vocabulary of the properties of the pipeline *)

Evaluated == pc \in {"matched", "ranked", "done", "failed"}
Ranked == pc \in {"ranked", "done"}

\* <<country, pathway>> of every element of a list of rules or match results
Pairs(seq) == [i \in 1..Len(seq) |-> <<seq[i].country, seq[i].pathway>>]

\* the countries named by the match results
InputCountries ==
    {matchOut.results[i].country : i \in 1..Len(matchOut.results)} \ {""}

\* number of tier entries of rankOut that carry country c
TierOccurrences(c) ==
      Cardinality({i \in 1..Len(rankOut.best_options) :
                        rankOut.best_options[i].country = c})
    + Cardinality({i \in 1..Len(rankOut.acceptable) :
                        rankOut.acceptable[i].country = c})
    + Cardinality({i \in 1..Len(rankOut.not_recommended) :
                        rankOut.not_recommended[i] = c})

(* C1: for any non-empty match-result list, also one in which a country    *)
(* occurs in several results, every input country appears in exactly one   *)
(* of best_options, acceptable and not_recommended, and the three lengths  *)
(* add up to the number of distinct input countries.                       *)
C1_TiersPartitionCountries ==
    Ranked =>
        /\ \A c \in InputCountries : TierOccurrences(c) = 1
        /\ Len(rankOut.best_options) + Len(rankOut.acceptable)
             + Len(rankOut.not_recommended) = Cardinality(InputCountries)

\* the rule is one the claimed goal filter lets through
ClaimedToBeEvaluated(r) ==
    LET goal == GoalOf(profile)
        pathway == StripLower(r.pathway)
    IN  \/ goal = ""
        \/ pathway = ""
        \/ pathway = goal
        \/ (goal \in GoalsWithAliases /\ pathway \in GOAL_ALIASES[goal])

C2_Expected(r) == ClaimedToBeEvaluated(r) /\ ~ScoreSingleRule(profile, r).raised

(* C2: evaluate_all evaluates a rule if and only if the goal is unset, or  *)
(* the rule's pathway is unset, or the trimmed lower-cased pathway equals  *)
(* the goal or belongs to the goal's alias set; so for the goals Study,    *)
(* Work and PR no rule of another pathway is returned.                     *)
C2_GoalFilterByPathway ==
    (Evaluated /\ matchOut.raised = "") =>
        Pairs(matchOut.results) = Pairs(SelectSeq(rules, C2_Expected))

(* C5: with an injected logger whose methods may raise on any call,        *)
(* evaluate_all and rank_countries behave exactly as with no logger: they  *)
(* raise nothing the logger raised and return the same results.            *)
C5_LoggerNeverAffectsResult ==
    /\ Evaluated => matchOut = EvaluateAllOutcome(profile, rules, "none", {})
    /\ (Ranked \/ (pc = "failed" /\ matchOut.raised = "")) =>
            rankOut = FinderOutcome(matchOut.results, profile, "none", {})

\* handling the rule passes the goal filter and raises nothing
C6_Expected(r) ==
    /\ r.pathway # BADSTR
    /\ GoalFilterPasses(GoalOf(profile), StripLower(r.pathway))
    /\ ~ScoreSingleRule(profile, r).raised

(* C6: if handling one rule raises, evaluate_all skips only that rule and  *)
(* still returns, in catalog order, one result for every other rule that   *)
(* passes the goal filter; one bad rule never makes the whole call fail.   *)
(* Stated for a logger that does not raise.                                *)
C6_BadRuleSkippedOnly ==
    (Evaluated /\ logger # "raising" /\ ~IsEmptyProfile(profile)) =>
        /\ matchOut.raised = ""
        /\ Pairs(matchOut.results) = Pairs(SelectSeq(rules, C6_Expected))

----------------------------------------------------------------------------
(* Single-rule runs: the education check, the funds risk note and the      *)
(* length of missing_requirements                                          *)

\* both the profile and the rule carry a degree label
BothDegreeLabels ==
    /\ NormalizeDegree(profile.education_level) # ""
    /\ (rule.min_degree # "" \/ rule.minimum_degree # "")

\* the label the rule requires, normalized
RequiredLabel ==
    NormalizeDegree(IF rule.min_degree # "" THEN rule.min_degree
                    ELSE rule.minimum_degree)

\* a normalized label that is not on the ordinal scale
UnknownLabel(d) == d \notin DOMAIN DEGREE_ORDER

(* C11: when both the profile and the rule carry a degree label, the       *)
(* education check adds exactly one penalty if either label is not on the  *)
(* ordinal scale (unknown profile label, or unknown required label) or if  *)
(* the profile's rank is below the required rank, and none otherwise.      *)
C11_EducationPenalty ==
    (Scored /\ BothDegreeLabels) =>
        LET have == NormalizeDegree(profile.education_level)
            need == RequiredLabel
        IN  IF UnknownLabel(have) \/ UnknownLabel(need)
            THEN CheckAdded(2, 1)
            ELSE IF DEGREE_ORDER[have] < DEGREE_ORDER[need]
            THEN CheckAdded(2, 1)
            ELSE CheckAdded(2, 0)

\* rule.get("min_funds_usd") or rule.get("minimum_funds_usd")
\*   or rule.get("minimum_income_usd")
RequiredFundsOf(r) ==
    IF Truthy(r.min_funds_usd) THEN r.min_funds_usd
    ELSE IF Truthy(r.minimum_funds_usd) THEN r.minimum_funds_usd
    ELSE Get(r.minimum_income_usd)

\* funds are present and fall short of the requirement by more than 5000
LargeShortfall ==
    /\ profile.funds_usd \notin {ABSENT, NONE}
    /\ Truthy(RequiredFundsOf(rule))
    /\ RequiredFundsOf(rule) - profile.funds_usd > 5000

(* C12: a risk note is appended exactly when funds are present and         *)
(* required_funds - funds > 5000 (a shortfall of exactly 5000 gives a      *)
(* penalty but no note), and the note never adds a penalty: a profile that *)
(* fails only the funds check by a large gap gets exactly one              *)
(* missing_requirements entry, one risks entry and risk_status "Risk".     *)
C12_RiskNoteOnLargeGapOnly ==
    Scored =>
        /\ Len(single.risks) = (IF LargeShortfall THEN 1 ELSE 0)
        /\ single.risk_status = (IF LargeShortfall THEN "Risk" ELSE "No Risk")
        /\ LargeShortfall => CheckAdded(4, 1)
        /\ (/\ profile.funds_usd \notin {ABSENT, NONE}
            /\ Truthy(RequiredFundsOf(rule))
            /\ RequiredFundsOf(rule) - profile.funds_usd = 5000)
                => (CheckAdded(4, 1) /\ single.risks = <<>>)
        /\ (LargeShortfall /\ \A i \in {1, 2, 3, 5} : CheckAdded(i, 0))
                => /\ Len(single.missing_requirements) = 1
                   /\ single.penalties = 1
                   /\ single.score = 80

C12_Witness ==
    /\ pc = "scored" /\ ~single.raised
    /\ profile.funds_usd = 18000 /\ rule.min_funds_usd = 35000
    /\ single.missing_requirements = <<"Insufficient funds">>
    /\ single.risks = <<"Large funds gap">>
    /\ single.risk_status = "Risk"
    /\ single.penalties = 1

\* a shortfall of exactly 5000: a penalty and no note
C12_ExactGapReached ==
    /\ pc = "scored" /\ ~single.raised
    /\ profile.funds_usd = 30000 /\ rule.min_funds_usd = 35000
    /\ single.risks = <<>>

(* C13: for every profile and rule, the number of entries of               *)
(* missing_requirements equals the number of penalties fired (one string   *)
(* per triggered penalty, none for a skipped or passed check), so          *)
(* raw_score = max(0, 1 - len(missing_requirements)/5).                    *)
C13_OneEntryPerPenalty ==
    Scored =>
        /\ Len(single.missing_requirements) = single.penalties
        /\ \A i \in 1..5 :
              EntriesOf(single.missing_requirements, i)
                  = Checks(profile, rule)[i].penalties
        /\ single.score =
              (IF Len(single.missing_requirements) >= 5 THEN 0
               ELSE 100 - 20 * Len(single.missing_requirements))

C13_Witness ==
    /\ pc = "scored" /\ ~single.raised
    /\ Len(single.missing_requirements) = 4
    /\ single.risks # <<>>
    /\ single.penalties = 4
    /\ single.score = 20

----------------------------------------------------------------------------
(* Pipeline: risk_status and the "risks" key of rule_gaps                   *)

\* the rules of the catalog a match result can come from
SourceRules(mr) ==
    {i \in 1..Len(rules) :
        rules[i].country = mr.country /\ rules[i].pathway = mr.pathway}

\* the risk notes _score_single_rule appended for rule i
NotesAppended(i) == Checks(profile, rules[i])[4].risks

(* C14: in every result of evaluate_all, rule_gaps.risk_status is "Risk"   *)
(* iff at least one risk note was appended, and the "risks" key is present *)
(* in rule_gaps iff risk_status is "Risk" (it is then a non-empty list);   *)
(* otherwise risk_status is "No Risk" and the key is omitted.              *)
C14_RiskStatusMatchesRisks ==
    (Evaluated /\ matchOut.raised = "") =>
        \A k \in 1..Len(matchOut.results) :
            LET mr == matchOut.results[k] IN
            /\ mr.risk_status \in {"Risk", "No Risk"}
            /\ \A i \in SourceRules(mr) :
                  /\ mr.risk_status = "Risk" <=> NotesAppended(i) # <<>>
                  /\ mr.has_risks_key => mr.risks = NotesAppended(i)
            /\ mr.has_risks_key <=> mr.risk_status = "Risk"
            /\ mr.has_risks_key => mr.risks # <<>>

C14_Witness ==
    /\ pc = "matched"
    /\ \E k \in 1..Len(matchOut.results) :
          /\ matchOut.results[k].risk_status = "Risk"
          /\ matchOut.results[k].has_risks_key
          /\ matchOut.results[k].risks = <<"Large funds gap">>
    /\ \E k \in 1..Len(matchOut.results) :
          /\ matchOut.results[k].risk_status = "No Risk"
          /\ ~matchOut.results[k].has_risks_key

----------------------------------------------------------------------------
(* Pipeline: validation of the inputs of MatchAgent                         *)

(* C19: MatchAgent fails fast on empty input: constructing it with an      *)
(* empty rule list raises ValueError, and evaluate_all with an empty       *)
(* profile raises ValueError before any rule is evaluated and without      *)
(* returning a result list.  Whatever the logger does and whatever the     *)
(* rules hold, the outcome is the ValueError.                              *)
C19_MatchAgentFailsFastOnEmpty ==
    /\ (rules = <<>> /\ pc # "new") => (pc = "rejected" /\ matchOut = NoMatchOut)
    /\ (Evaluated /\ IsEmptyProfile(profile)) =>
          /\ pc = "failed"
          /\ matchOut = [raised |-> "ValueError", results |-> <<>>]

C19_Witness ==
    /\ pc = "failed"
    /\ IsEmptyProfile(profile)
    /\ logger = "raising"
    /\ \E i \in 1..Len(rules) : rules[i].pathway = BADSTR
    /\ matchOut.raised = "ValueError"

\* the constructor rejected an empty catalog
C19_RejectedReached == pc = "rejected" /\ rules = <<>>

----------------------------------------------------------------------------
(* Vocabulary of the properties of CountryFinderAgent.  The match results  *)
(* are matchOut.results; the ones without a country are not scored.        *)

\* the match results that name a country, in input order
Named == SelectSeq(matchOut.results, LAMBDA mr : mr.country # "")

\* the final score of the k-th named result
ScoreOf(k) == CalculateFinalScore(Named[k], profile)

\* the constructor accepted the inputs
FinderBuilt == matchOut.results # <<>> /\ ~IsEmptyProfile(profile)

\* get_top_recommendation was called on a constructed agent
TopAsked == FinderBuilt /\ top # NoTop

\* the country of the first best_options entry, else of the first
\* acceptable entry, else no recommendation
FirstOfTiers(ranking) ==
    IF ranking.best_options # <<>> THEN ranking.best_options[1].country
    ELSE IF ranking.acceptable # <<>> THEN ranking.acceptable[1].country
    ELSE NoRecommendation

(* C15: get_top_recommendation returns the country of the first            *)
(* best_options entry if there is one, else the country of the first       *)
(* acceptable entry if there is one, else None; so it returns a country    *)
(* holding the maximum final score whenever that maximum is >= 60, returns *)
(* None exactly when every final score is below 60, and never raises.      *)
C15_TopRecommendation ==
    TopAsked =>
        /\ top.raised = ""
        /\ pc = "done" => top.country = FirstOfTiers(rankOut)
        /\ top.country = NoRecommendation
              <=> \A k \in 1..Len(Named) : ScoreOf(k) < 6000
        /\ top.country # NoRecommendation =>
              \E k \in 1..Len(Named) :
                  /\ Named[k].country = top.country
                  /\ ScoreOf(k) >= 6000
                  /\ \A j \in 1..Len(Named) : ScoreOf(j) <= ScoreOf(k)

\* C15 where rank_countries raises nothing: the profile gives a number for
\* ielts or leaves the key out
C15_TopRecommendationWhenIeltsGiven ==
    (TopAsked /\ profile.ielts # NONE) => C15_TopRecommendation

\* where the k-th named result stands after a stable sort by non-increasing
\* final score
SortedPosition(k) ==
    1 + Cardinality({j \in 1..Len(Named) : ScoreOf(j) > ScoreOf(k)})
      + Cardinality({j \in 1..(k - 1) : ScoreOf(j) = ScoreOf(k)})

\* the countries of a tier of entries, in order
CountriesOf(tier) == [i \in 1..Len(tier) |-> tier[i].country]

\* a list of countries is a subsequence of the countries of the breakdown
\* rows picked by `rows`, a strictly increasing list of row numbers
PicksFrom(countries, breakdown, rows) ==
    /\ \A i \in 1..Len(countries) : breakdown[rows[i]].country = countries[i]
    /\ \A i \in 1..(Len(countries) - 1) : rows[i] < rows[i + 1]

IsSubsequence(countries, breakdown) ==
    \E rows \in [1..Len(countries) -> 1..Len(breakdown)] :
        PicksFrom(countries, breakdown, rows)

\* a tier of entries is a subsequence of the breakdown: country, pathway and
\* score of every entry are those of the row it is picked from
EntriesPickedFrom(tier, breakdown) ==
    \E rows \in [1..Len(tier) -> 1..Len(breakdown)] :
        /\ PicksFrom(CountriesOf(tier), breakdown, rows)
        /\ \A i \in 1..Len(tier) :
              /\ breakdown[rows[i]].pathway = tier[i].pathway
              /\ breakdown[rows[i]].final_score = tier[i].score

(* C16: rank_countries orders the scored results by non-increasing final   *)
(* score, and results with equal final scores keep their relative order    *)
(* from the input match-result list; detailed_breakdown follows exactly    *)
(* that order and each of best_options, acceptable and not_recommended is  *)
(* a subsequence of it.                                                    *)
C16_StableDescendingOrder ==
    Ranked =>
        LET breakdown == rankOut.detailed_breakdown IN
        /\ Len(breakdown) = Len(Named)
        /\ \A i \in 1..(Len(breakdown) - 1) :
              breakdown[i].final_score >= breakdown[i + 1].final_score
        /\ \A k \in 1..Len(Named) :
              /\ breakdown[SortedPosition(k)].country = Named[k].country
              /\ breakdown[SortedPosition(k)].pathway = Named[k].pathway
              /\ breakdown[SortedPosition(k)].final_score = ScoreOf(k)
        /\ EntriesPickedFrom(rankOut.best_options, breakdown)
        /\ EntriesPickedFrom(rankOut.acceptable, breakdown)
        /\ IsSubsequence(rankOut.not_recommended, breakdown)

\* a result followed by two higher-scoring results that tie: the sort moves
\* the two in front and keeps them in input order
C16_Witness ==
    /\ pc = "ranked"
    /\ Len(Named) = 3
    /\ ScoreOf(1) < ScoreOf(2) /\ ScoreOf(2) = ScoreOf(3)
    /\ Named[2].pathway = "Work" /\ Named[3].pathway = "Study"
    /\ rankOut.detailed_breakdown[1].pathway = "Work"
    /\ rankOut.detailed_breakdown[2].pathway = "Study"
    /\ rankOut.detailed_breakdown[3].country = Named[1].country

(* C18: the scores map returned by rank_countries has exactly one entry    *)
(* per distinct country of the input match results, and when a country     *)
(* occurs more than once its value is the final score of the last result   *)
(* for that country in input order (last write wins).                      *)
C18_ScoresLastWriteWins ==
    Ranked =>
        /\ DOMAIN rankOut.scores = {Named[k].country : k \in 1..Len(Named)}
        /\ \A k \in 1..Len(Named) :
              (\A j \in (k + 1)..Len(Named) : Named[j].country # Named[k].country)
                  => rankOut.scores[Named[k].country] = ScoreOf(k)

\* a country with two results, the first of them scoring higher
C18_Witness ==
    /\ pc = "ranked"
    /\ Len(Named) = 3
    /\ Named[1].country = Named[3].country
    /\ Named[2].country # Named[1].country
    /\ ScoreOf(1) > ScoreOf(3)
    /\ rankOut.scores[Named[1].country] = ScoreOf(3)
    /\ Cardinality(DOMAIN rankOut.scores) = 2

(* C20: ranking rejects empty input: CountryFinderAgent given an empty     *)
(* match-result list, or an empty profile, raises ValueError instead of    *)
(* producing a ranking.                                                    *)
C20_FinderRejectsEmptyInput ==
    (pc # "matched" /\ (matchOut.results = <<>> \/ IsEmptyProfile(profile))) =>
        /\ pc = "failed"
        /\ \/ rankOut = RankRaised("ValueError") /\ top = NoTop
           \/ rankOut = NoRankOut /\ top = [raised |-> "ValueError", country |-> ""]

C20_Witness ==
    /\ pc = "failed"
    /\ matchOut.results # <<>>
    /\ IsEmptyProfile(profile)
    /\ rankOut.raised = "ValueError"

\* the empty match-result list is rejected as well
C20_EmptyListRejected ==
    /\ pc = "failed"
    /\ matchOut.results = <<>>
    /\ ~IsEmptyProfile(profile)
    /\ top.raised = "ValueError"

----------------------------------------------------------------------------
(* _classify_countries as a function of the score                          *)

\* <<country, score>> of every item of a scored list or tier
CountryScores(items) == [i \in 1..Len(items) |-> <<items[i].country, items[i].score>>]

\* the scores of the items of a scored list or tier, in order
ScoresIn(items) == [i \in 1..Len(items) |-> items[i].score]

\* the items whose score lies in lo..hi, in order
Between(items, lo, hi) ==
    SelectSeq(items, LAMBDA item : lo <= item.score /\ item.score <= hi)

(* C17: classification is a pure threshold partition of the final score:   *)
(* score >= 80 goes to best_options, 60 <= score < 80 to acceptable,       *)
(* score < 60 to not_recommended; at the boundaries 80.00 is best, 79.99   *)
(* acceptable, 60.00 acceptable and 59.99 not recommended.                 *)
C17_ThresholdPartition ==
    pc = "classified" =>
        /\ CountryScores(classification.best_options)
              = CountryScores(Between(scored, 8000, 10000))
        /\ CountryScores(classification.acceptable)
              = CountryScores(Between(scored, 6000, 7999))
        /\ classification.not_recommended
              = [i \in 1..Len(Between(scored, 0, 5999)) |->
                    Between(scored, 0, 5999)[i].country]
        /\ Len(classification.best_options) + Len(classification.acceptable)
              + Len(classification.not_recommended) = Len(scored)

\* the four boundary scores in one list
C17_Witness ==
    /\ pc = "classified"
    /\ ScoresIn(scored) = <<8000, 7999, 6000, 5999>>
    /\ ScoresIn(classification.best_options) = <<8000>>
    /\ ScoresIn(classification.acceptable) = <<7999, 6000>>
    /\ Len(classification.not_recommended) = 1

----------------------------------------------------------------------------
(* CountryFinderAgent: unknown countries, missing profile fields, and the  *)
(* agreement of tiers and scores                                           *)

\* rank_countries was called, on an agent the constructor accepted
RankAsked ==
    /\ FinderBuilt
    /\ pc \in {"ranked", "done"} \/ (pc = "failed" /\ top = NoTop)

\* every match result that names a country names one COUNTRY_DATA lacks
OnlyUnknownCountries ==
    /\ Len(Named) > 0
    /\ \A k \in 1..Len(Named) : Named[k].country \notin KnownCountries

(* C23: for a country absent from COUNTRY_DATA, each of visa_difficulty,   *)
(* quality_of_life, cost_of_living and job_market is taken as 0.5,         *)
(* language alignment is 0, and scoring and ranking complete without an    *)
(* error.                                                                  *)
C23_UnknownCountryDefaults ==
    /\ (RankAsked /\ OnlyUnknownCountries) => rankOut.raised = ""
    /\ Ranked =>
          \A i \in 1..Len(rankOut.detailed_breakdown) :
              LET row == rankOut.detailed_breakdown[i] IN
              row.country \notin KnownCountries =>
                  /\ row.visa_difficulty = 5000
                  /\ row.quality_of_life = 5000
                  /\ row.cost_of_living = 5000
                  /\ row.job_market = 5000
                  /\ row.language_score = 0
                  /\ row.final_score =
                        Round2(30 * row.eligibility_raw_score
                                  * (CASE row.eligibility_status = "OK" -> 100
                                       [] row.eligibility_status = "Borderline" -> 80
                                       [] OTHER -> 50)
                               + 20 * row.financial_score + 35 * 5000)

\* an unknown country is ranked for a profile whose ielts is None
C23_Witness ==
    /\ pc = "ranked"
    /\ profile.ielts = NONE
    /\ Len(Named) = 1 /\ Named[1].country = "Atlantis"
    /\ rankOut.detailed_breakdown[1].final_score = 6750
    /\ rankOut.acceptable[1].country = "Atlantis"

(* C24: neither evaluate_all nor rank_countries raises because an optional *)
(* profile field (age, education_level, ielts, german_level, french_level, *)
(* funds_usd, work_experience_years, goal) is absent from the profile or   *)
(* present with no value (None): the field is penalized or skipped and a   *)
(* result is still returned.  Stated for rank_countries on well-formed     *)
(* match results.                                                          *)
C24_MissingFieldNeverRaises ==
    RankAsked => rankOut.raised = ""

(* C30: in the output of rank_countries, every entry of best_options and   *)
(* acceptable carries a score equal to scores[entry.country], and every    *)
(* country's tier is the one implied by scores[country] (>= 80 best,       *)
(* >= 60 acceptable, else not recommended), also when a country has        *)
(* several match results with different final scores.                      *)
C30_TiersAgreeWithScores ==
    Ranked =>
        /\ \A i \in 1..Len(rankOut.best_options) :
              LET e == rankOut.best_options[i] IN
              e.score = rankOut.scores[e.country] /\ rankOut.scores[e.country] >= 8000
        /\ \A i \in 1..Len(rankOut.acceptable) :
              LET e == rankOut.acceptable[i] IN
              /\ e.score = rankOut.scores[e.country]
              /\ rankOut.scores[e.country] >= 6000
              /\ rankOut.scores[e.country] < 8000
        /\ \A i \in 1..Len(rankOut.not_recommended) :
              rankOut.scores[rankOut.not_recommended[i]] < 6000

C22_RankAfterTopReached ==
    /\ pc = "done" /\ rankOut.best_options # <<>> /\ rankOut.acceptable # <<>>
    /\ top.country = rankOut.best_options[1].country

----------------------------------------------------------------------------
(* Pipeline: a goal that excludes every rule                                *)

\* the goal filter lets no rule of the catalog through
EveryRuleExcluded ==
    /\ rules # <<>>
    /\ \A i \in 1..Len(rules) :
          /\ rules[i].pathway # BADSTR
          /\ ~GoalFilterPasses(GoalOf(profile), StripLower(rules[i].pathway))

(* C28: when the goal filter excludes every rule, evaluate_all returns an  *)
(* empty list without raising, and the pipeline built on it ends in an     *)
(* outcome distinct from the failure reported for an empty profile or an   *)
(* empty catalog: it does not fail with a validation error.  Stated for a  *)
(* logger that does not raise.                                             *)
C28_EmptyMatchIsNotInvalidInput ==
    (Evaluated /\ EveryRuleExcluded /\ logger # "raising") =>
        /\ matchOut = [raised |-> "", results |-> <<>>]
        /\ ~(pc = "failed" /\ rankOut.raised = "ValueError")

\* the first half of C28 alone: evaluate_all returns the empty list
C28_EvaluateAllReturnsEmpty ==
    (Evaluated /\ EveryRuleExcluded /\ logger # "raising") =>
        matchOut = [raised |-> "", results |-> <<>>]

----------------------------------------------------------------------------
(* CountryFinderAgent: the weights                                          *)

\* 1.0 as a double
DoubleOne == Double(0, 0, 0, \h0200)

\* the double next below 1.0, 1 - 2^-53, which prints as 0.9999999999999999
DoubleBelowOne == Double(\hfff0, \hffff, \hffff, \h01ff)

----------------------------------------------------------------------------
(* FundsGapCalculator.get_savings_plan.  Amounts are whole currency units, *)
(* for which the float division and int() of the code are the integer      *)
(* quotient.  The module sets LOGGING_ENABLED = False, so self.logger is   *)
(* None and the logging branch is never taken.                             *)

\* months by ceiling division: no extra month on exact division
MonthsNeeded_Ceiling(gap, monthly_savings) ==
    (gap + monthly_savings - 1) \div monthly_savings

\* int(gap / monthly_savings) + 1
MonthsNeeded(gap, monthly_savings) == (gap \div monthly_savings) + 1

\* the feasibility ladder
FeasibilityLevel(months_needed) ==
    IF months_needed <= 6 THEN "Highly feasible"
    ELSE IF months_needed <= 12 THEN "Feasible"
    ELSE IF months_needed <= 24 THEN "Challenging but possible"
    ELSE "Very challenging"

\* the f-string of the recommendation, by its parts
SaveRecommendation(monthly_savings, currency, months_needed, feasibility) ==
    <<"Save", monthly_savings, currency, "/month for", months_needed, "months.",
      feasibility>>

\* what get_savings_plan returns
SavingsPlan(available, required, monthly_savings, currency) ==
    LET gap == IF required - available > 0 THEN required - available ELSE 0
    IN  IF gap = 0 THEN
            [gap |-> 0, monthly_savings |-> monthly_savings,
             months_needed |-> 0, feasible |-> TRUE,
             feasibility_level |-> "Already sufficient",
             recommendation |-> <<"You already have sufficient funds!">>,
             currency |-> currency]
        ELSE IF monthly_savings <= 0 THEN
            [gap |-> gap, monthly_savings |-> 0,
             months_needed |-> NONE, feasible |-> FALSE,
             feasibility_level |-> "Not feasible",
             recommendation |->
                 <<"Savings plan not feasible without monthly savings capacity.">>,
             currency |-> currency]
        ELSE
            LET months_needed == MonthsNeeded(gap, monthly_savings)
                feasibility   == FeasibilityLevel(months_needed)
            IN  [gap |-> gap, monthly_savings |-> monthly_savings,
                 months_needed |-> months_needed,
                 feasible |-> months_needed <= 24,
                 feasibility_level |-> feasibility,
                 recommendation |->
                     SaveRecommendation(monthly_savings, currency,
                                        months_needed, feasibility),
                 currency |-> currency]

\* the amounts tried
AvailableFunds == {0, 15000, 20000, 25000}
RequiredFunds == {0, 15000, 20000, 20001, 43000, 44000}
MonthlySavings == {-100, 0, 1, 999, 1000, 1001, 5000}
Currencies == {"USD", "EUR"}

InitSavings ==
    /\ profile = EmptyProfile
    /\ rules = <<>>
    /\ logger = "none"
    /\ pc = "savings"
    /\ matchOut = NoMatchOut
    /\ rankOut = NoRankOut
    /\ top = NoTop
    /\ rule = NoRule
    /\ single = NoSingle
    /\ final = NoFinal
    /\ prev = NoPrev
    /\ scored = <<>>
    /\ classification = NoClassification
    /\ weights = WEIGHTS
    /\ request \in [available : AvailableFunds, required : RequiredFunds,
                    monthly_savings : MonthlySavings, currency : Currencies]
    /\ plan = NoPlan
    /\ sessions = NoSessions /\ history = NoHistory

GetSavingsPlan ==
    /\ pc = "savings"
    /\ plan' = SavingsPlan(request.available, request.required,
                           request.monthly_savings, request.currency)
    /\ pc' = "planned"
    /\ UNCHANGED <<profile, rules, logger, matchOut, rankOut, top, rule, single,
                   final, prev, scored, classification, weights, request,
                   sessions, history>>

NextSavings == GetSavingsPlan

SpecSavings == InitSavings /\ [][NextSavings]_vars

\* the shortfall of the request
GapOf(r) == r.required - r.available

(* C29: for gap = required - available > 0 and monthly_savings > 0,        *)
(* get_savings_plan returns months_needed = int(gap / monthly_savings) + 1, *)
(* one more than the quotient on exact division (gap 5000 at 1000 a month  *)
(* gives 6, not 5); months_needed * monthly_savings >= gap, and feasible   *)
(* is true iff months_needed <= 24.                                        *)
C29_SavingsMonths ==
    (pc = "planned" /\ GapOf(request) > 0 /\ request.monthly_savings > 0) =>
        /\ plan.months_needed
              = (GapOf(request) \div request.monthly_savings) + 1
        /\ GapOf(request) % request.monthly_savings = 0 =>
              plan.months_needed * request.monthly_savings
                  = GapOf(request) + request.monthly_savings
        /\ (GapOf(request) = 5000 /\ request.monthly_savings = 1000) =>
              plan.months_needed = 6
        /\ plan.months_needed * request.monthly_savings >= GapOf(request)
        /\ plan.feasible <=> plan.months_needed <= 24

\* exact division: 5000 short at 1000 a month, six months planned
C29_Witness ==
    /\ pc = "planned"
    /\ GapOf(request) = 5000 /\ request.monthly_savings = 1000
    /\ plan.months_needed = 6 /\ plan.feasible

\* a plan of more than 24 months, not feasible
C29_InfeasibleReached ==
    /\ pc = "planned"
    /\ GapOf(request) > 0 /\ request.monthly_savings > 0
    /\ plan.months_needed = 25 /\ ~plan.feasible

\* a plan of exactly 24 months, feasible
C29_LastFeasibleReached ==
    /\ pc = "planned"
    /\ GapOf(request) = 23000 /\ request.monthly_savings = 1000
    /\ plan.months_needed = 24 /\ plan.feasible

----------------------------------------------------------------------------
(* SessionService.  A python dict is a function from its keys; None is     *)
(* PyNone.  Of the UserProfile schema the model keeps a required scalar    *)
(* (immigration_goal), a list with a default (preferred_countries) and a   *)
(* required nested model whose fields have defaults                        *)
(* (language_proficiency: ielts_score in tenths, cefr_level); the other    *)
(* fields of the schema are of one of these three kinds.  A model instance *)
(* carries the names of the fields it was given (pydantic's fields set).   *)

\* LanguageProficiency(**d)
LanguageProficiency(d) ==
    [ielts_score |-> IF "ielts_score" \in DOMAIN d THEN d.ielts_score ELSE 0,
     cefr_level  |-> IF "cefr_level" \in DOMAIN d THEN d.cefr_level ELSE "A1",
     fields_set  |-> DOMAIN d]

\* UserProfile(**d) accepts d: the required fields are there
ValidProfileData(d) ==
    {"immigration_goal", "language_proficiency"} \subseteq DOMAIN d

\* UserProfile(**d), for d that it accepts
UserProfile(d) ==
    [immigration_goal     |-> d.immigration_goal,
     preferred_countries  |-> IF "preferred_countries" \in DOMAIN d
                              THEN d.preferred_countries ELSE <<>>,
     language_proficiency |-> LanguageProficiency(d.language_proficiency),
     fields_set           |-> DOMAIN d]

\* model_dump()
ModelDump(p) ==
    [immigration_goal     |-> p.immigration_goal,
     preferred_countries  |-> p.preferred_countries,
     language_proficiency |->
         [ielts_score |-> p.language_proficiency.ielts_score,
          cefr_level  |-> p.language_proficiency.cefr_level]]

\* model_dump(exclude_unset=True)
ModelDumpExcludeUnset(p) ==
    LET full == ModelDump(p)
    IN  [k \in p.fields_set |->
            IF k = "language_proficiency"
            THEN [j \in p.language_proficiency.fields_set |->
                     full.language_proficiency[j]]
            ELSE full[k]]

\* isinstance(value, dict) for the value under key k: in the data modelled
\* the nested model is the one dict-valued field
IsDictValued(k) == k = "language_proficiency"

\* a merge that replaces a nested dict whole instead of descending into it
DeepMerge_Shallow(dest, src) ==
    [k \in DOMAIN dest \cup DOMAIN src |->
        IF k \in DOMAIN src THEN src[k] ELSE dest[k]]

\* deep_merge(dest, src), by its effect on dest
RECURSIVE DeepMerge(_, _)
DeepMerge(dest, src) ==
    [k \in DOMAIN dest \cup DOMAIN src |->
        IF k \notin DOMAIN src THEN dest[k]
        ELSE IF IsDictValued(k) /\ k \in DOMAIN dest
             THEN DeepMerge(dest[k], src[k])
             ELSE src[k]]

\* a session as _ensure_session creates it
NewSession ==
    [user_profile |-> PyNone, country_ranking |-> PyNone,
     recommendation_results |-> PyNone]

\* creating a session drops every other one
EnsureSession_Alone(ss, sid) ==
    IF sid \in DOMAIN ss THEN ss ELSE [id \in {sid} |-> NewSession]

\* _ensure_session, by its effect on _sessions
EnsureSession(ss, sid) ==
    IF sid \in DOMAIN ss THEN ss
    ELSE [id \in DOMAIN ss \cup {sid} |-> IF id = sid THEN NewSession ELSE ss[id]]

\* session[key] = value
StoreIn(ss, sid, key, value) ==
    [ss EXCEPT ![sid] = [ss[sid] EXCEPT ![key] = value]]

\* get_user_profile, get_country_ranking, get_recommendation_results
GetUserProfile(ss, sid) ==
    IF sid \in DOMAIN ss THEN ss[sid].user_profile ELSE PyNone

GetCountryRanking(ss, sid) ==
    IF sid \in DOMAIN ss THEN ss[sid].country_ranking ELSE PyNone

GetRecommendationResults(ss, sid) ==
    IF sid \in DOMAIN ss THEN ss[sid].recommendation_results ELSE PyNone

\* update_user_profile: the exception raised, if any, and _sessions after
UpdateUserProfileOutcome(ss, sid, data) ==
    LET ensured == EnsureSession(ss, sid)
        current == ensured[sid].user_profile
    IN  IF current = PyNone THEN
            IF data.kind = "UserProfile" THEN
                [raised |-> "",
                 sessions |-> StoreIn(ensured, sid, "user_profile", data.value)]
            ELSE IF ValidProfileData(data.value) THEN
                [raised |-> "",
                 sessions |-> StoreIn(ensured, sid, "user_profile",
                                      UserProfile(data.value))]
            ELSE [raised |-> "ValidationError", sessions |-> ensured]
        ELSE
            LET update_data == IF data.kind = "UserProfile"
                               THEN ModelDumpExcludeUnset(data.value)
                               ELSE data.value
                base_data   == DeepMerge(ModelDump(current), update_data)
            IN  [raised |-> "",
                 sessions |-> StoreIn(ensured, sid, "user_profile",
                                      UserProfile(base_data))]

\* update_country_ranking and store_recommendation_results
UpdateCountryRankingOutcome(ss, sid, ranking) ==
    StoreIn(EnsureSession(ss, sid), sid, "country_ranking", ranking)

StoreRecommendationResultsOutcome(ss, sid, results) ==
    StoreIn(EnsureSession(ss, sid), sid, "recommendation_results", results)

\* a reset that empties the session and leaves it in place with its ranking
ResetSessionOutcome_KeepsRanking(ss, sid) ==
    IF sid \in DOMAIN ss
    THEN StoreIn(StoreIn(ss, sid, "user_profile", PyNone), sid,
                 "recommendation_results", PyNone)
    ELSE ss

\* reset_session: del self._sessions[session_id] if it is there
ResetSessionOutcome(ss, sid) ==
    [id \in DOMAIN ss \ {sid} |-> ss[id]]

\* delete_session: the same statement
DeleteSessionOutcome(ss, sid) ==
    [id \in DOMAIN ss \ {sid} |-> ss[id]]

\* the session ids and the data tried
SessionIds == {"user1", "user2"}

GivenProfiles ==
    { \* every field given
      UserProfile([immigration_goal |-> "Study",
                   preferred_countries |-> <<"Canada">>,
                   language_proficiency |->
                       [ielts_score |-> 70, cefr_level |-> "B2"]]),
      \* every field given, with the values the defaults have
      UserProfile([immigration_goal |-> "Work",
                   preferred_countries |-> <<>>,
                   language_proficiency |->
                       [ielts_score |-> 0, cefr_level |-> "A1"]]),
      \* the list and one nested field left to their defaults
      UserProfile([immigration_goal |-> "Work",
                   language_proficiency |-> [ielts_score |-> 70]]),
      \* the required fields only
      UserProfile([immigration_goal |-> "Study",
                   language_proficiency |-> [k \in {} |-> 0]]) }

GivenDicts ==
    { [preferred_countries |-> <<"Canada">>],
      [language_proficiency |-> [cefr_level |-> "B2"]],
      [immigration_goal |-> "Study",
       preferred_countries |-> <<>>,
       language_proficiency |-> [ielts_score |-> 0, cefr_level |-> "B2"]] }

GivenProfileData ==
    {[kind |-> "UserProfile", value |-> p] : p \in GivenProfiles}
    \cup {[kind |-> "dict", value |-> d] : d \in GivenDicts}

GivenRankings ==
    { [ranked_countries |-> <<[country |-> "Canada", pathway |-> "Study", score |-> 95]>>],
      [ranked_countries |-> <<[country |-> "Germany", pathway |-> "PR", score |-> 98]>>] }

GivenRecommendations == { [top_recommendation |-> "Canada"] }

InitSession ==
    /\ profile = EmptyProfile
    /\ rules = <<>>
    /\ logger = "none"
    /\ pc = "session"
    /\ matchOut = NoMatchOut
    /\ rankOut = NoRankOut
    /\ top = NoTop
    /\ rule = NoRule
    /\ single = NoSingle
    /\ final = NoFinal
    /\ prev = NoPrev
    /\ scored = <<>>
    /\ classification = NoClassification
    /\ weights = WEIGHTS
    /\ request = NoRequest /\ plan = NoPlan
    /\ sessions = NoSessions /\ history = NoHistory

\* the record of a call: what was called, on which id, with what, what it
\* raised, and the ids that an update was called on so far
Called(op, sid, data, raised, updates) ==
    [op |-> op, sid |-> sid, data |-> data, raised |-> raised,
     updated |-> IF updates THEN history.updated \cup {sid} ELSE history.updated]

UpdateUserProfile ==
    /\ pc = "session"
    /\ \E sid \in SessionIds, data \in GivenProfileData :
          LET out == UpdateUserProfileOutcome(sessions, sid, data)
          IN  /\ sessions' = out.sessions
              /\ history' = Called("update_user_profile", sid, data, out.raised, TRUE)
    /\ UNCHANGED <<profile, rules, logger, pc, matchOut, rankOut, top, rule,
                   single, final, prev, scored, classification, weights,
                   request, plan>>

UpdateCountryRanking ==
    /\ pc = "session"
    /\ \E sid \in SessionIds, ranking \in GivenRankings :
          /\ sessions' = UpdateCountryRankingOutcome(sessions, sid, ranking)
          /\ history' = Called("update_country_ranking", sid,
                               [kind |-> "CountryRanking", value |-> ranking],
                               "", TRUE)
    /\ UNCHANGED <<profile, rules, logger, pc, matchOut, rankOut, top, rule,
                   single, final, prev, scored, classification, weights,
                   request, plan>>

StoreRecommendationResults ==
    /\ pc = "session"
    /\ \E sid \in SessionIds, results \in GivenRecommendations :
          /\ sessions' = StoreRecommendationResultsOutcome(sessions, sid, results)
          /\ history' = Called("store_recommendation_results", sid,
                               [kind |-> "dict", value |-> results], "", TRUE)
    /\ UNCHANGED <<profile, rules, logger, pc, matchOut, rankOut, top, rule,
                   single, final, prev, scored, classification, weights,
                   request, plan>>

ResetSession ==
    /\ pc = "session"
    /\ \E sid \in SessionIds :
          /\ sessions' = ResetSessionOutcome(sessions, sid)
          /\ history' = Called("reset_session", sid, NoData, "", FALSE)
    /\ UNCHANGED <<profile, rules, logger, pc, matchOut, rankOut, top, rule,
                   single, final, prev, scored, classification, weights,
                   request, plan>>

DeleteSession ==
    /\ pc = "session"
    /\ \E sid \in SessionIds :
          /\ sessions' = DeleteSessionOutcome(sessions, sid)
          /\ history' = Called("delete_session", sid, NoData, "", FALSE)
    /\ UNCHANGED <<profile, rules, logger, pc, matchOut, rankOut, top, rule,
                   single, final, prev, scored, classification, weights,
                   request, plan>>

NextSession ==
    \/ UpdateUserProfile
    \/ UpdateCountryRanking
    \/ StoreRecommendationResults
    \/ ResetSession
    \/ DeleteSession

SpecSession == InitSession /\ [][NextSession]_vars

----------------------------------------------------------------------------
(* SessionService: what the getters return                                  *)

\* what the three getters return for a session id
Gets(ss, sid) ==
    <<GetUserProfile(ss, sid), GetCountryRanking(ss, sid),
      GetRecommendationResults(ss, sid)>>

AllNone == <<PyNone, PyNone, PyNone>>

(* C25: for a session id that no update was ever called on, and for any   *)
(* session id right after reset_session on it, whatever calls came before, *)
(* get_user_profile, get_country_ranking and get_recommendation_results    *)
(* all return None.                                                        *)
C25_NoneWhenFreshOrReset ==
    \A sid \in SessionIds :
        (\/ sid \notin history.updated
         \/ (history.op = "reset_session" /\ history.sid = sid)) =>
            Gets(sessions, sid) = AllNone

\* a session that updates were called on has just been reset, while the
\* other one still holds a profile
C25_Witness ==
    /\ history.op = "reset_session"
    /\ history.sid \in history.updated
    /\ Gets(sessions, history.sid) = AllNone
    /\ \E other \in SessionIds \ {history.sid} :
          GetUserProfile(sessions, other) # PyNone

(* C26: isolation.  A call of update_user_profile, update_country_ranking, *)
(* store_recommendation_results, reset_session or delete_session on one    *)
(* session id leaves what the three getters return for every other session *)
(* id as it was.                                                           *)
C26_SessionsIsolated ==
    [][\A other \in SessionIds :
          other # history'.sid => Gets(sessions', other) = Gets(sessions, other)]_vars

\* a profile update has just created the session of one id while the other
\* id holds a profile, a ranking and results
C26_Witness ==
    /\ history.op = "update_user_profile"
    /\ GetUserProfile(sessions, history.sid) # PyNone
    /\ GetCountryRanking(sessions, history.sid) = PyNone
    /\ \E other \in SessionIds \ {history.sid} :
          /\ GetUserProfile(sessions, other) # PyNone
          /\ GetCountryRanking(sessions, other) # PyNone
          /\ GetRecommendationResults(sessions, other) # PyNone

\* a delete on one id with the other id's data in place
C26_DeleteBesideData ==
    /\ history.op = "delete_session"
    /\ history.sid \in history.updated
    /\ \E other \in SessionIds \ {history.sid} : Gets(sessions, other) # AllNone

----------------------------------------------------------------------------
(* SessionService.update_user_profile: the merge                            *)

\* the fields of a profile, nested ones by their path
FieldPaths ==
    { <<"immigration_goal">>, <<"preferred_countries">>,
      <<"language_proficiency", "ielts_score">>,
      <<"language_proficiency", "cefr_level">> }

\* the value of a field in a profile or in a dict
ValueAt(d, path) ==
    IF Len(path) = 1 THEN d[path[1]] ELSE d[path[1]][path[2]]

\* the new data sets the field: the key is in the dict, or the instance
\* was given the field
IsSetIn(data, path) ==
    IF data.kind = "dict"
    THEN /\ path[1] \in DOMAIN data.value
         /\ Len(path) = 2 => path[2] \in DOMAIN data.value[path[1]]
    ELSE /\ path[1] \in data.value.fields_set
         /\ Len(path) = 2 => path[2] \in data.value[path[1]].fields_set

\* the new data sets every field
FullySpecified(data) == \A path \in FieldPaths : IsSetIn(data, path)

(* C27: update_user_profile creates the session if needed; with no         *)
(* existing profile it stores the given profile as is; with an existing    *)
(* profile every field set in the new data takes the new value and every   *)
(* field not set in the new data keeps its old value; after an update with *)
(* a fully specified profile get_user_profile returns a profile equal to   *)
(* it.  Stated for the calls that return.                                  *)
C27_UpdateMerges ==
    [][(history'.op = "update_user_profile" /\ history'.raised = "") =>
          LET sid    == history'.sid
              data   == history'.data
              before == GetUserProfile(sessions, sid)
              after  == GetUserProfile(sessions', sid)
          IN  /\ sid \in DOMAIN sessions'
              /\ after # PyNone
              /\ (before = PyNone /\ data.kind = "UserProfile") =>
                    after = data.value
              /\ before = PyNone =>
                    \A path \in FieldPaths :
                        IsSetIn(data, path) =>
                            ValueAt(after, path) = ValueAt(data.value, path)
              /\ before # PyNone =>
                    \A path \in FieldPaths :
                        ValueAt(after, path)
                            = IF IsSetIn(data, path)
                              THEN ValueAt(data.value, path)
                              ELSE ValueAt(before, path)
              /\ FullySpecified(data) =>
                    \A path \in FieldPaths :
                        ValueAt(after, path) = ValueAt(data.value, path)]_vars

\* a merge: the update gave the goal and the IELTS score and left the CEFR
\* level and the countries unset; the stored profile has the new goal and
\* score and keeps a CEFR level and a country that are not the defaults
C27_Witness ==
    /\ history.op = "update_user_profile" /\ history.raised = ""
    /\ history.data.kind = "UserProfile"
    /\ history.data.value.fields_set = {"immigration_goal", "language_proficiency"}
    /\ history.data.value.language_proficiency.fields_set = {"ielts_score"}
    /\ LET stored == GetUserProfile(sessions, history.sid)
       IN  /\ stored # PyNone
           /\ stored.immigration_goal = "Work"
           /\ stored.language_proficiency.ielts_score = 70
           /\ stored.language_proficiency.cefr_level = "B2"
           /\ stored.preferred_countries = <<"Canada">>

\* a first update with a dict that lacks a required field: the call raises
\* and leaves a session without a profile
C27_RejectedDictReached ==
    /\ history.op = "update_user_profile" /\ history.raised = "ValidationError"
    /\ history.sid \in DOMAIN sessions
    /\ GetUserProfile(sessions, history.sid) = PyNone

\* a partial dict merged into an existing profile
C27_DictMergedReached ==
    /\ history.op = "update_user_profile" /\ history.raised = ""
    /\ history.data = [kind |-> "dict",
                       value |-> [language_proficiency |-> [cefr_level |-> "B2"]]]
    /\ LET stored == GetUserProfile(sessions, history.sid)
       IN  /\ stored.language_proficiency.cefr_level = "B2"
           /\ stored.language_proficiency.ielts_score = 70
           /\ stored.immigration_goal = "Work"

====
